---- MODULE Spec2Model ----
(***************************************************************************)
(* Indicator aggregation and diagnostics engine of the delivery dashboard  *)
(* (src/utils/metrics.py).                                                 *)
(*                                                                         *)
(* Numbers.  Percentages, indices and thresholds are kept as integers in   *)
(* hundredths (70.00 is 7000), so that round(x, 2) is a rounding integer   *)
(* division.  Python rounds the binary float; it can differ from the       *)
(* exact quotient only when the exact quotient lies on a tie (..5          *)
(* thousandths), where Round2 rounds half to even.  The properties below   *)
(* state "rounded to 2 decimals" as a distance of at most half a           *)
(* hundredth, so that none of them depends on how a tie is broken.         *)
(* Weights are kept in tenths (0.6 is 6); the code divides every weight    *)
(* by their sum, so only their ratios matter.                              *)
(***************************************************************************)
EXTENDS Integers, Sequences, FiniteSets, TLC

VARIABLES
    df,                 \* the table the engine is called on
    pc,                 \* which function returned last
    columna,            \* calcular_porcentaje: the column argument
    porcentaje,         \* calcular_porcentaje: the value returned
    indices,            \* calcular_indice_general: its five indices
    umbral_alerta,      \* identificar_problemas: arguments
    umbral_critico,
    problemas_criticos, \* identificar_problemas: the two lists returned
    alertas,            \* (and the arguments of generar_recomendaciones)
    grupo,              \* calcular_indice_grupo: arguments, weights used, outcome
    recomendaciones,    \* generar_recomendaciones: the dict returned
    traza,              \* generar_recomendaciones: what each iteration appended
    original,           \* preprocess_data: the raw table as it was when passed
    entrada,            \* preprocess_data: the table object passed, as it is now
    retorno,            \* preprocess_data: the table returned
    tabla,              \* the table the filters are given
    filtro,             \* filters.py: the function called and its arguments
    filtrada,           \* filters.py: the table it returned
    seleccion,          \* what the user selected: the values of the filter widgets
    filtrada_app,       \* get_global_filters: the table after each stage
    session_state,      \* st.session_state: the key filtered_df
    vista,              \* a sub-page: the page and the table its get_data returned
    historial,          \* the tables main() stored under filtered_df, in order
    entorno,            \* load_data_from_sheets: what its environment answers
    cargada             \* load_data_from_sheets: the outcome of the call

\* the variables of the engine (metrics.py) and of preprocess_data
varsMotor ==
    <<df, columna, porcentaje, indices, umbral_alerta, umbral_critico,
      problemas_criticos, alertas, grupo, recomendaciones, traza, original, entrada,
      retorno>>
\* the variables of the filters, of the pages and of the loader
varsFiltros == <<tabla, filtro, filtrada, seleccion, filtrada_app>>
varsSesion == <<session_state, vista, historial>>
varsCargador == <<entorno, cargada>>
varsPaginas == <<varsFiltros, varsSesion, varsCargador>>

vars == <<pc, varsMotor, varsPaginas>>

(***************************************************************************)
(* Bounds of the input tables.                                             *)
(***************************************************************************)
MaxCells == 10
\* longest weight list given to calcular_indice_grupo
MaxPesos == 4
\* most entries in the two lists given to generar_recomendaciones, together
MaxEntradas == 3
\* most rows of a raw table given to preprocess_data
MaxFilas == 2
\* most indicators satisfied in a table that has every tracked column
MaxBuenas == 2
\* last day of the dates of a table and of the date arguments (the first is day 0)
MaxDia == 2

(***************************************************************************)
(* Helpers on sequences and numbers.                                       *)
(***************************************************************************)
RECURSIVE SumSeq(_)
SumSeq(s) == IF s = <<>> THEN 0 ELSE Head(s) + SumSeq(Tail(s))

SelectCols(cols, present) == SelectSeq(cols, LAMBDA c : c \in present)

\* round(a / b, 2) on hundredths: nearest integer to a / b, b > 0.
Round2(a, b) ==
    LET q == a \div b
        r == a % b
    IN  IF 2 * r < b THEN q
        ELSE IF 2 * r > b THEN q + 1
        ELSE IF q % 2 = 0 THEN q ELSE q + 1

(***************************************************************************)
(* The table.  df.len is len(df); df.data maps each column present to its  *)
(* cells, one per row.                                                     *)
(***************************************************************************)
Columns(t) == DOMAIN t.data
Empty(t) == t.len = 0 \/ Columns(t) = {}

\* variant: the denominator counts the rows that answered 1, not every row
calcular_porcentaje_sobre_respuestas(t, col) ==
    IF col \notin Columns(t) \/ Empty(t) THEN 0
    ELSE LET unos == Cardinality({i \in 1..t.len : t.data[col][i] # 0})
         IN  IF unos = 0 THEN 0 ELSE Round2(SumSeq(t.data[col]) * 10000, unos)

\* calcular_porcentaje(df, columna)
calcular_porcentaje(t, col) ==
    IF col \notin Columns(t) \/ Empty(t) THEN 0
    ELSE Round2(SumSeq(t.data[col]) * 10000, t.len)

\* pesos=None, and a list of weights (in tenths)
None == [dado |-> FALSE, lista |-> <<>>]
Pesos(l) == [dado |-> TRUE, lista |-> l]
\* the weight 1 of [1] * n, in tenths
PesoUno == 10

Min(a, b) == IF a < b THEN a ELSE b

\* the list `pesos` once it has a weight for each of the k columns present
PesosAjustados(k, pesos) ==
    IF ~pesos.dado THEN [i \in 1..k |-> PesoUno]
    ELSE LET recortados == SubSeq(pesos.lista, 1, Min(k, Len(pesos.lista)))
         IN  recortados \o [i \in 1..(k - Len(recortados)) |-> PesoUno]

\* sum(v * p for v, p in zip(valores, ps))
SumaZip(valores, ps) ==
    SumSeq([i \in 1..Min(Len(valores), Len(ps)) |-> valores[i] * ps[i]])

\* p / suma_pesos raises ZeroDivisionError
GrupoLanza(t, columnas, pesos) ==
    LET k == Len(SelectCols(columnas, Columns(t)))
    IN  k > 0 /\ SumSeq(PesosAjustados(k, pesos)) = 0

\* calcular_indice_grupo(df, columnas, pesos), when it returns
calcular_indice_grupo(t, columnas, pesos) ==
    LET columnas_existentes == SelectCols(columnas, Columns(t))
        k == Len(columnas_existentes)
        ps == PesosAjustados(k, pesos)
        suma_pesos == SumSeq(ps)
        valores == [i \in 1..k |-> calcular_porcentaje(t, columnas_existentes[i])]
    IN  IF k = 0 THEN 0
        ELSE IF suma_pesos > 0 THEN Round2(SumaZip(valores, ps), suma_pesos)
        ELSE -Round2(SumaZip(valores, ps), -suma_pesos)

(***************************************************************************)
(* The four named indices and the overall index.                           *)
(***************************************************************************)
columnas_accesibilidad == <<"comedor_facil_Acceso", "vehiculo_puede_llegar_a_sitio">>
columnas_neg ==
    <<"trasbordo", "ingreso_apoyo_comunidad", "demora_entregas",
      "inocuidad_comprometida">>
columnas_cumplimiento ==
    <<"entrega_en_dia_programado", "alimentos_debidamente_entregados">>
pesos_cumplimiento == <<6, 4>>
columnas_vehiculo ==
    <<"vehiculo_limpio_buen_estado", "alimentos_de_calidad_cantidad",
      "contenedores_para_cada_tipoalimento">>
pesos_vehiculo == <<3, 4, 3>>
columnas_actitudes ==
    <<"actitud_conductor_respetuosa_colaborativa",
      "actitud_auxiliar_respetuosa_colaborativa",
      "actitud_gestora_respetuosa_colaborativa",
      "buena_disposicion_recibir_mercados", "comunicacion_efectiva",
      "resolucion_inconvenientes">>

Range(s) == {s[i] : i \in DOMAIN s}

\* variant: the copy is taken but the cells are not inverted
InvertirNada(t, cols) == t

\* df_neg_inv: the copy of df with the cells of `cols` replaced by 1 - cell
Invertir(t, cols) ==
    [t EXCEPT !.data =
        [c \in Columns(t) |->
            IF c \in Range(cols) THEN [i \in DOMAIN t.data[c] |-> 1 - t.data[c][i]]
            ELSE t.data[c]]]

\* variant: the two partial indices are added, the 0.6 / 0.4 weights forgotten
CombinarSinPesos(indice_pos, indice_neg) == indice_pos + indice_neg

\* (indice_pos * 0.6) + (indice_neg * 0.4), rounded
Combinar(indice_pos, indice_neg) == Round2(indice_pos * 6 + indice_neg * 4, 10)

\* variant: the negative columns are aggregated as they are and the result is
\* complemented (100 - index) instead of the cells being inverted
calcular_indice_accesibilidad_complemento(t) ==
    LET columnas_pos_existentes == SelectCols(columnas_accesibilidad, Columns(t))
        columnas_neg_existentes == SelectCols(columnas_neg, Columns(t))
        indice_pos == IF columnas_pos_existentes # <<>>
                      THEN calcular_indice_grupo(t, columnas_pos_existentes, None)
                      ELSE 0
        indice_neg == IF columnas_neg_existentes # <<>>
                      THEN 10000 - calcular_indice_grupo(t, columnas_neg_existentes, None)
                      ELSE 0
    IN  IF columnas_pos_existentes = <<>> /\ columnas_neg_existentes = <<>> THEN 0
        ELSE IF columnas_pos_existentes # <<>> /\ columnas_neg_existentes # <<>>
             THEN Combinar(indice_pos, indice_neg)
        ELSE IF columnas_pos_existentes # <<>> THEN indice_pos
        ELSE indice_neg

\* calcular_indice_accesibilidad(df)
calcular_indice_accesibilidad(t) ==
    LET columnas_pos_existentes == SelectCols(columnas_accesibilidad, Columns(t))
        columnas_neg_existentes == SelectCols(columnas_neg, Columns(t))
        indice_pos == IF columnas_pos_existentes # <<>>
                      THEN calcular_indice_grupo(t, columnas_pos_existentes, None)
                      ELSE 0
        indice_neg == IF columnas_neg_existentes # <<>>
                      THEN calcular_indice_grupo(Invertir(t, columnas_neg_existentes),
                                                 columnas_neg_existentes, None)
                      ELSE 0
    IN  IF columnas_pos_existentes = <<>> /\ columnas_neg_existentes = <<>> THEN 0
        ELSE IF columnas_pos_existentes # <<>> /\ columnas_neg_existentes # <<>>
             THEN Combinar(indice_pos, indice_neg)
        ELSE IF columnas_pos_existentes # <<>> THEN indice_pos
        ELSE indice_neg

\* calcular_indice_cumplimiento(df)
calcular_indice_cumplimiento(t) ==
    LET columnas_existentes == SelectCols(columnas_cumplimiento, Columns(t))
    IN  IF columnas_existentes = <<>> THEN 0
        ELSE calcular_indice_grupo(t, columnas_existentes, Pesos(pesos_cumplimiento))

\* calcular_indice_vehiculo(df)
calcular_indice_vehiculo(t) ==
    LET columnas_existentes == SelectCols(columnas_vehiculo, Columns(t))
    IN  IF columnas_existentes = <<>> THEN 0
        ELSE calcular_indice_grupo(t, columnas_existentes, Pesos(pesos_vehiculo))

\* calcular_indice_actitudes(df)
calcular_indice_actitudes(t) ==
    LET columnas_existentes == SelectCols(columnas_actitudes, Columns(t))
    IN  IF columnas_existentes = <<>> THEN 0
        ELSE calcular_indice_grupo(t, columnas_existentes, None)

\* variant: the mean is taken over all four indices, zeros included
PromedioTodos(inds) ==
    IF SelectSeq(inds, LAMBDA ind : ind > 0) = <<>> THEN 0
    ELSE Round2(SumSeq(inds), Len(inds))

\* the tail of calcular_indice_general: the mean of the valid indices
PromedioValidos(inds) ==
    LET indices_validos == SelectSeq(inds, LAMBDA ind : ind > 0)
    IN  IF indices_validos = <<>> THEN 0
        ELSE Round2(SumSeq(indices_validos), Len(indices_validos))

\* calcular_indice_general(df), with the four group indices it computes
calcular_indice_general(t) ==
    LET indice_accesibilidad == calcular_indice_accesibilidad(t)
        indice_cumplimiento == calcular_indice_cumplimiento(t)
        indice_vehiculo == calcular_indice_vehiculo(t)
        indice_actitudes == calcular_indice_actitudes(t)
    IN  [accesibilidad |-> indice_accesibilidad,
         cumplimiento |-> indice_cumplimiento,
         vehiculo |-> indice_vehiculo,
         actitudes |-> indice_actitudes,
         general |-> PromedioValidos(<<indice_accesibilidad, indice_cumplimiento,
                                       indice_vehiculo, indice_actitudes>>)]

(***************************************************************************)
(* identificar_problemas.                                                  *)
(***************************************************************************)
\* columnas_por_grupo, in the order the dict is iterated (group names and labels
\* are written without their accents)
columnas_por_grupo ==
    << [grupo |-> "Accesibilidad",
        columnas |-> <<"comedor_facil_Acceso", "vehiculo_puede_llegar_a_sitio",
                       "trasbordo", "ingreso_apoyo_comunidad", "demora_entregas",
                       "inocuidad_comprometida">>],
       [grupo |-> "Cumplimiento",
        columnas |-> <<"entrega_en_dia_programado",
                       "alimentos_debidamente_entregados">>],
       [grupo |-> "Vehiculo",
        columnas |-> <<"vehiculo_limpio_buen_estado", "alimentos_de_calidad_cantidad",
                       "contenedores_para_cada_tipoalimento">>],
       [grupo |-> "Actitudes",
        columnas |-> <<"actitud_conductor_respetuosa_colaborativa",
                       "actitud_auxiliar_respetuosa_colaborativa",
                       "actitud_gestora_respetuosa_colaborativa",
                       "buena_disposicion_recibir_mercados", "comunicacion_efectiva",
                       "resolucion_inconvenientes">>] >>

nombres_legibles ==
    [comedor_facil_Acceso |-> "Acceso Facil al Comedor",
     vehiculo_puede_llegar_a_sitio |-> "Vehiculo Llega Directamente",
     trasbordo |-> "Necesidad de Trasbordo",
     ingreso_apoyo_comunidad |-> "Necesidad de Apoyo Comunitario",
     demora_entregas |-> "Demoras en Otras Entregas",
     inocuidad_comprometida |-> "Inocuidad Comprometida",
     entrega_en_dia_programado |-> "Entrega en Dia Programado",
     alimentos_debidamente_entregados |-> "Verificacion de Alimentos",
     vehiculo_limpio_buen_estado |-> "Vehiculo Limpio y en Buen Estado",
     alimentos_de_calidad_cantidad |-> "Calidad y Cantidad de Alimentos",
     contenedores_para_cada_tipoalimento |-> "Contenedores Adecuados",
     actitud_conductor_respetuosa_colaborativa |-> "Actitud del Conductor",
     actitud_auxiliar_respetuosa_colaborativa |-> "Actitud del Auxiliar",
     actitud_gestora_respetuosa_colaborativa |-> "Actitud de la Gestora",
     buena_disposicion_recibir_mercados |-> "Disposicion para Recibir",
     comunicacion_efectiva |-> "Comunicacion Efectiva",
     resolucion_inconvenientes |-> "Resolucion de Inconvenientes"]

\* nombres_legibles.get(col, col)
NombreLegible(col) ==
    IF col \in DOMAIN nombres_legibles THEN nombres_legibles[col] ELSE col

indicadores_negativos ==
    {"trasbordo", "ingreso_apoyo_comunidad", "demora_entregas",
     "inocuidad_comprometida"}

\* variant: negative indicators are not inverted
ValorSinInvertir(t, col) == calcular_porcentaje(t, col)

\* the value and the label of one indicator (body of the inner loop)
ValorEvaluado(t, col) ==
    IF col \in indicadores_negativos
    THEN 10000 - calcular_porcentaje(t, col)
    ELSE calcular_porcentaje(t, col)

NombreIndicador(col) ==
    IF col \in indicadores_negativos
    THEN "Ausencia de " \o NombreLegible(col)
    ELSE NombreLegible(col)

\* the entry appended for column col of group g
Entrada(t, g, col) ==
    [grupo |-> g, indicador |-> NombreIndicador(col),
     valor |-> ValorEvaluado(t, col), columna |-> col]

\* variant: every column of the group is analysed, present or not
ColumnasTodas(t, columnas) == columnas

\* columnas_existentes of one group: the columns the loop analyses
ColumnasExistentes(t, columnas) == SelectCols(columnas, Columns(t))

\* the entries of every indicator analysed, in the order of the two loops
AnalizadosGrupo(t, g) ==
    LET columnas_existentes == ColumnasExistentes(t, g.columnas)
    IN  [i \in 1..Len(columnas_existentes) |->
            Entrada(t, g.grupo, columnas_existentes[i])]

Analizados(t) ==
    AnalizadosGrupo(t, columnas_por_grupo[1]) \o AnalizadosGrupo(t, columnas_por_grupo[2])
    \o AnalizadosGrupo(t, columnas_por_grupo[3]) \o AnalizadosGrupo(t, columnas_por_grupo[4])

\* variants: the critical bound is inclusive; the alert test is an `if`, not an `elif`
EsCriticoInclusivo(valor, ua, uc) == valor <= uc
EsAlertaSinElif(valor, ua, uc) == valor < ua

\* the two branches of the classification
EsCritico(valor, ua, uc) == valor < uc
EsAlerta(valor, ua, uc) == ~(valor < uc) /\ valor < ua

\* variant: the lists are returned in the order they were built
SinOrdenar(lista) == lista

\* sorted(lista, key=lambda x: x['valor']): stable, ascending
InsertarOrdenado(ordenada, e) ==
    LET k == Cardinality({i \in 1..Len(ordenada) : ordenada[i].valor <= e.valor})
    IN  SubSeq(ordenada, 1, k) \o <<e>> \o SubSeq(ordenada, k + 1, Len(ordenada))

RECURSIVE Ordenar(_)
Ordenar(lista) ==
    IF lista = <<>> THEN <<>>
    ELSE InsertarOrdenado(Ordenar(SubSeq(lista, 1, Len(lista) - 1)), lista[Len(lista)])

\* identificar_problemas(df, umbral_alerta, umbral_critico)
identificar_problemas(t, ua, uc) ==
    [problemas_criticos |->
        Ordenar(SelectSeq(Analizados(t), LAMBDA e : EsCritico(e.valor, ua, uc))),
     alertas |->
        Ordenar(SelectSeq(Analizados(t), LAMBDA e : EsAlerta(e.valor, ua, uc)))]

(***************************************************************************)
(* generar_recomendaciones (metrics.py).  The advisory texts are the       *)
(* source's, written without accents.                                      *)
(***************************************************************************)
\* variant: no identifier contains the substring
NoContiene(s, sub) == FALSE

\* sub in s, for strings
Contiene(s, sub) ==
    \E i \in 1..(Len(s) - Len(sub) + 1) : SubSeq(s, i, i + Len(sub) - 1) = sub

\* variant: the horizon does not depend on the critical list
PlazoSiempreMediano(indicador, problemas) == "mediano_plazo"

\* ...['corto_plazo'].append(r) if indicador in [p['columna'] for p in problemas]
\* else ...['mediano_plazo'].append(r)
PlazoSegunSeveridad(indicador, problemas) ==
    IF \E i \in 1..Len(problemas) : problemas[i].columna = indicador
    THEN "corto_plazo"
    ELSE "mediano_plazo"

\* one iteration of the loop: the text chosen for `indicador` and the list it is
\* appended to; texto "" when no branch matches and nothing is appended
RecomendacionDe(indicador, problemas) ==
    IF indicador = "comedor_facil_Acceso" \/ indicador = "vehiculo_puede_llegar_a_sitio"
    THEN [texto |-> "Realizar un estudio detallado de rutas y accesos para mejorar el acceso a los comedores con dificultades.",
          plazo |-> PlazoSegunSeveridad(indicador, problemas)]
    ELSE IF indicador = "trasbordo"
    THEN [texto |-> "Evaluar la posibilidad de utilizar vehiculos mas pequenos para zonas de dificil acceso.",
          plazo |-> "mediano_plazo"]
    ELSE IF indicador = "ingreso_apoyo_comunidad"
    THEN [texto |-> "Establecer acuerdos formales con lideres comunitarios para facilitar el apoyo en las entregas.",
          plazo |-> "mediano_plazo"]
    ELSE IF indicador = "demora_entregas"
    THEN [texto |-> "Optimizar la programacion de rutas considerando los tiempos adicionales para comedores de dificil acceso.",
          plazo |-> PlazoSegunSeveridad(indicador, problemas)]
    ELSE IF indicador = "inocuidad_comprometida"
    THEN [texto |-> "Implementar protocolos especificos para preservar la inocuidad de los alimentos en condiciones de trasbordos.",
          plazo |-> "corto_plazo"]
    ELSE IF indicador = "entrega_en_dia_programado"
    THEN [texto |-> "Establecer un sistema de seguimiento en tiempo real para monitorear el cumplimiento de entregas.",
          plazo |-> PlazoSegunSeveridad(indicador, problemas)]
    ELSE IF indicador = "alimentos_debidamente_entregados"
    THEN [texto |-> "Implementar un sistema digital de verificacion de alimentos con listas de chequeo electronicas.",
          plazo |-> "mediano_plazo"]
    ELSE IF indicador = "vehiculo_limpio_buen_estado"
    THEN [texto |-> "Establecer un protocolo de verificacion de limpieza y estado del vehiculo antes de cada jornada.",
          plazo |-> PlazoSegunSeveridad(indicador, problemas)]
    ELSE IF indicador = "alimentos_de_calidad_cantidad"
    THEN [texto |-> "Reforzar los controles de calidad de alimentos antes de su carga en los vehiculos.",
          plazo |-> "corto_plazo"]
    ELSE IF indicador = "contenedores_para_cada_tipoalimento"
    THEN [texto |-> "Estandarizar el uso de contenedores especificos para cada tipo de alimento con etiquetado claro.",
          plazo |-> "mediano_plazo"]
    ELSE IF Contiene(indicador, "actitud")
    THEN [texto |-> "Implementar talleres de sensibilizacion y capacitacion en servicio al cliente y trabajo en equipo.",
          plazo |-> "mediano_plazo"]
    ELSE IF indicador = "buena_disposicion_recibir_mercados"
    THEN [texto |-> "Desarrollar protocolos claros para el proceso de recepcion y establecer tiempos estimados para cada etapa.",
          plazo |-> "mediano_plazo"]
    ELSE IF indicador = "comunicacion_efectiva"
    THEN [texto |-> "Establecer canales de comunicacion efectivos y un glosario comun para todos los actores involucrados.",
          plazo |-> "mediano_plazo"]
    ELSE IF indicador = "resolucion_inconvenientes"
    THEN [texto |-> "Implementar un sistema de registro y seguimiento de incidencias para asegurar su resolucion.",
          plazo |-> "mediano_plazo"]
    ELSE [texto |-> "", plazo |-> ""]

\* the loop over todos_problemas = problemas + alertas: one record per iteration
Iteraciones(problemas, lista_alertas) ==
    LET todos_problemas == problemas \o lista_alertas
    IN  [i \in 1..Len(todos_problemas) |->
            LET r == RecomendacionDe(todos_problemas[i].columna, problemas)
            IN  [columna |-> todos_problemas[i].columna, texto |-> r.texto,
                 plazo |-> r.plazo]]

\* recomendaciones[plazo] when the loop is over: the texts appended to it, in order
Anexadas(problemas, lista_alertas, plazo) ==
    LET sel == SelectSeq(Iteraciones(problemas, lista_alertas), LAMBDA r : r.plazo = plazo)
    IN  [i \in 1..Len(sel) |-> sel[i].texto]

\* the three general long-term statements
recomendaciones_generales ==
    <<"Implementar un sistema integral de monitoreo y evaluacion continua del proceso de entrega.",
      "Establecer un programa de capacitacion permanente para todo el personal involucrado en el proceso.",
      "Desarrollar un plan de mejora continua con revisiones trimestrales de los indicadores clave.">>

\* variant: the list is returned as appended
ConDuplicados(lista) == lista

\* list(dict.fromkeys(lista)): the first occurrence of each string, in order
RECURSIVE SinDuplicados(_)
SinDuplicados(lista) ==
    IF lista = <<>> THEN <<>>
    ELSE LET previos == SinDuplicados(SubSeq(lista, 1, Len(lista) - 1))
             ultimo == lista[Len(lista)]
         IN  IF ultimo \in Range(previos) THEN previos ELSE Append(previos, ultimo)

\* variant: a string already in corto_plazo is dropped from mediano_plazo
generar_recomendaciones_sin_repetir_entre_plazos(problemas, lista_alertas) ==
    LET corto == SinDuplicados(Anexadas(problemas, lista_alertas, "corto_plazo"))
    IN  [corto_plazo |-> corto,
         mediano_plazo |->
            SelectSeq(SinDuplicados(Anexadas(problemas, lista_alertas, "mediano_plazo")),
                      LAMBDA r : r \notin Range(corto)),
         largo_plazo |-> SinDuplicados(recomendaciones_generales)]

\* variant: the general statements are added inside `if problemas or alertas`
generar_recomendaciones_solo_con_problemas(problemas, lista_alertas) ==
    [corto_plazo |-> SinDuplicados(Anexadas(problemas, lista_alertas, "corto_plazo")),
     mediano_plazo |-> SinDuplicados(Anexadas(problemas, lista_alertas, "mediano_plazo")),
     largo_plazo |-> IF problemas # <<>> \/ lista_alertas # <<>>
                     THEN SinDuplicados(recomendaciones_generales)
                     ELSE <<>>]

\* generar_recomendaciones(problemas, alertas); with both lists empty the loop is
\* skipped (line 350) and nothing is appended
generar_recomendaciones(problemas, lista_alertas) ==
    [corto_plazo |-> SinDuplicados(Anexadas(problemas, lista_alertas, "corto_plazo")),
     mediano_plazo |-> SinDuplicados(Anexadas(problemas, lista_alertas, "mediano_plazo")),
     largo_plazo |-> SinDuplicados(recomendaciones_generales)]

(***************************************************************************)
(* preprocess_data (data_loader.py).  A raw table is [len, data], data     *)
(* giving each column its dtype ("object" or "numeric") and its cells.  A  *)
(* cell is a text, a number or NaN, held as a record so that cells of      *)
(* different kinds can be compared.                                        *)
(***************************************************************************)
Texto(s) == [t |-> "str", s |-> s, n |-> 0]
Numero(n) == [t |-> "num", s |-> "", n |-> n]
NaN == [t |-> "nan", s |-> "", n |-> 0]

boolean_columns ==
    <<"comedor_facil_Acceso", "vehiculo_puede_llegar_a_sitio", "trasbordo",
      "ingreso_apoyo_comunidad", "demora_entregas", "inocuidad_comprometida",
      "entrega_en_dia_programado", "alimentos_debidamente_entregados",
      "vehiculo_limpio_buen_estado", "alimentos_de_calidad_cantidad",
      "contenedores_para_cada_tipoalimento",
      "actitud_conductor_respetuosa_colaborativa",
      "actitud_auxiliar_respetuosa_colaborativa",
      "actitud_gestora_respetuosa_colaborativa",
      "buena_disposicion_recibir_mercados", "comunicacion_efectiva",
      "resolucion_inconvenientes">>

monetary_columns == <<"valor_trasbordo", "valor_apoyo">>

\* str.upper() on the texts the raw tables hold
Mayusculas(s) ==
    CASE s = "si" -> "SI"
      [] s = "Si" -> "SI"
      [] s = "No" -> "NO"
      [] s = "n" -> "N"
      [] s = "s" -> "S"
      [] s = "True" -> "TRUE"
      [] s = "falso" -> "FALSO"
      [] s = "Verdadero" -> "VERDADERO"
      [] s = "nan" -> "NAN"
      [] s = "x" -> "X"
      [] OTHER -> s

\* astype(str) of a cell of an object column
ComoTexto(c) ==
    CASE c.t = "str" -> c.s
      [] c.t = "num" -> IF c.n = 0 THEN "0"
                        ELSE IF c.n = 1 THEN "1"
                        ELSE IF c.n = 2 THEN "2"
                        ELSE "1500"
      [] OTHER -> "nan"

\* the dict given to Series.map; a key that is not in it maps to NaN
Mapa(s) ==
    CASE s \in {"SI", "S", "TRUE", "VERDADERO"} -> Numero(1)
      [] s \in {"NO", "N", "FALSE", "FALSO", "NAN", ""} -> Numero(0)
      [] OTHER -> NaN

\* pd.to_numeric(errors='coerce') of a cell
ANumero(c) ==
    CASE c.t = "num" -> c
      [] c.t = "nan" -> NaN
      [] c.s = "0" -> Numero(0)
      [] c.s = "1" -> Numero(1)
      [] c.s = "2" -> Numero(2)
      [] c.s = "1500" -> Numero(1500)
      [] OTHER -> NaN

\* fillna(0)
FillNa(c) == IF c.t = "nan" THEN Numero(0) ELSE c

\* a boolean column after the loop of lines 198-207
BooleanaProcesada(col) ==
    IF col.dtype = "numeric" THEN col
    ELSE [dtype |-> "numeric",
          celdas |-> [i \in DOMAIN col.celdas |->
                         FillNa(ANumero(Mapa(Mayusculas(ComoTexto(col.celdas[i])))))]]

\* a monetary column after the loop of lines 210-212
MonetariaProcesada(col) ==
    [dtype |-> "numeric",
     celdas |-> [i \in DOMAIN col.celdas |-> FillNa(ANumero(col.celdas[i]))]]

\* the table preprocess_data(t) leaves in the object it was given and returns
preprocess_data(t) ==
    IF Empty(t) THEN t
    ELSE [len |-> t.len,
          data |-> [c \in DOMAIN t.data |->
                       IF c \in Range(boolean_columns) THEN BooleanaProcesada(t.data[c])
                       ELSE IF c \in Range(monetary_columns)
                            THEN MonetariaProcesada(t.data[c])
                       ELSE t.data[c]]]

(***************************************************************************)
(* The filters (filters.py) and the global filter of the main page         *)
(* (app.py).  A table is [columnas, filas]: the set of its columns and its *)
(* rows in order; a row carries its index label idx.  A date cell is an    *)
(* instant in milliseconds since day 0 at 00:00:00, FechaNula (None, NaN,  *)
(* NaT) or FechaIlegible (a text pd.to_datetime coerces to NaT).  A date   *)
(* argument is a day number (a datetime.date) or Ninguna (None).          *)
(***************************************************************************)
MsPorSegundo == 1000
MsPorDia == 86400 * MsPorSegundo
FechaNula == -1
FechaIlegible == -2
Ninguna == -1

\* df.empty: no rows or no columns
EsVacia(t) == t.filas = <<>> \/ t.columnas = {}

\* df[mask]: the rows of df whose entry of the boolean mask is true, in order
Filtrar(t, mascara) ==
    LET quedan == {i \in DOMAIN t.filas : mascara[i]}
        posicion(k) ==
            CHOOSE i \in quedan : Cardinality({j \in quedan : j < i}) = k - 1
    IN  [t EXCEPT !.filas = [k \in 1..Cardinality(quedan) |-> t.filas[posicion(k)]]]


\* pd.to_datetime(errors='coerce') of a date cell
AFecha(f) == IF f = FechaIlegible THEN FechaNula ELSE f

\* df['fecha'] = pd.to_datetime(df['fecha'], errors='coerce')
ConFechas(t) ==
    [t EXCEPT !.filas = [i \in DOMAIN t.filas |->
                            [t.filas[i] EXCEPT !.fecha = AFecha(t.filas[i].fecha)]]]

\* df.dropna(subset=['fecha'])
DropNaFecha(t) == Filtrar(t, [i \in DOMAIN t.filas |-> t.filas[i].fecha # FechaNula])

\* pd.to_datetime(d) of a date: its midnight
Medianoche(d) == d * MsPorDia

\* variant: the table given is returned when no row has a valid date
apply_date_filter_sin_validas(t, start_date, end_date) ==
    IF "fecha" \notin t.columnas \/ EsVacia(t) THEN t
    ELSE LET validas == DropNaFecha(ConFechas(t))
         IN  IF EsVacia(validas) THEN t
             ELSE IF start_date # Ninguna /\ end_date # Ninguna
             THEN LET desde == Medianoche(start_date)
                      hasta == Medianoche(end_date) + MsPorDia - MsPorSegundo
                  IN  Filtrar(validas,
                              [i \in DOMAIN validas.filas |->
                                  /\ validas.filas[i].fecha >= desde
                                  /\ validas.filas[i].fecha <= hasta])
             ELSE validas

\* apply_date_filter(df, start_date, end_date): the table returned
apply_date_filter(t, start_date, end_date) ==
    IF "fecha" \notin t.columnas \/ EsVacia(t) THEN t
    ELSE LET validas == DropNaFecha(ConFechas(t))
         IN  IF EsVacia(validas) THEN validas
             ELSE IF start_date # Ninguna /\ end_date # Ninguna
             THEN LET desde == Medianoche(start_date)
                      hasta == Medianoche(end_date) + MsPorDia - MsPorSegundo
                  IN  Filtrar(validas,
                              [i \in DOMAIN validas.filas |->
                                  /\ validas.filas[i].fecha >= desde
                                  /\ validas.filas[i].fecha <= hasta])
             ELSE validas

Todos == "Todos"
Todas == "Todas"

\* variant: the sentinels are not looked for
SinFiltroDeCategoria(values) == values = <<>>

\* not values or 'Todos' in values or 'Todas' in values
SinFiltroCategoria(values) ==
    values = <<>> \/ Todos \in Range(values) \/ Todas \in Range(values)

\* apply_category_filter(df, column, values)
apply_category_filter(t, column, values) ==
    IF column \notin t.columnas \/ EsVacia(t) THEN t
    ELSE IF SinFiltroCategoria(values) THEN t
    ELSE Filtrar(t, [i \in DOMAIN t.filas |-> t.filas[i][column] \in Range(values)])

\* a null cell of a category column (None, NaN)
CategoriaNula == "<NA>"

\* .date() of an instant
DiaDe(f) == f \div MsPorDia

\* min_date and max_date of the rows with a valid date
FechaMinima(t) ==
    DiaDe(CHOOSE f \in {t.filas[i].fecha : i \in DOMAIN t.filas} :
              \A i \in DOMAIN t.filas : f <= t.filas[i].fecha)
FechaMaxima(t) ==
    DiaDe(CHOOSE f \in {t.filas[i].fecha : i \in DOMAIN t.filas} :
              \A i \in DOMAIN t.filas : f >= t.filas[i].fecha)

\* 'fecha' in df_filtrado.columns and not df_filtrado['fecha'].dropna().empty
HayFechas(t) ==
    "fecha" \in t.columnas /\ \E i \in DOMAIN t.filas : t.filas[i].fecha # FechaNula

\* the date widget is shown: some row has a valid date
HayWidgetDeFechas(t) == HayFechas(t) /\ ~EsVacia(DropNaFecha(ConFechas(t)))

\* the date stage of get_global_filters; date_range is what st.sidebar.date_input
\* returned: n dates, the first two being inicio and fin
EtapaFecha(t, date_range) ==
    IF ~HayFechas(t) THEN t
    ELSE LET df_filtrado == ConFechas(t)
         IN  IF EsVacia(DropNaFecha(df_filtrado)) THEN df_filtrado
             ELSE IF date_range.n = 2
             THEN LET start_datetime == Medianoche(date_range.inicio)
                      end_datetime == Medianoche(date_range.fin) + MsPorDia
                  IN  Filtrar(df_filtrado,
                              [i \in DOMAIN df_filtrado.filas |->
                                  /\ df_filtrado.filas[i].fecha # FechaNula
                                  /\ df_filtrado.filas[i].fecha >= start_datetime
                                  /\ df_filtrado.filas[i].fecha < end_datetime])
             ELSE df_filtrado

\* the category column has a value that is not null, so its selectbox is shown
HayCategorias(t, column) ==
    column \in t.columnas /\ \E i \in DOMAIN t.filas : t.filas[i][column] # CategoriaNula

\* the options of the selectbox after the sentinel
Opciones(t, column) ==
    {t.filas[i][column] : i \in DOMAIN t.filas} \ {CategoriaNula}

\* a selectbox stage of get_global_filters: rows equal to the selected value, unless
\* the sentinel is selected
EtapaCategoria(t, column, sentinela, seleccionada) ==
    IF HayCategorias(t, column) /\ seleccionada # sentinela
    THEN Filtrar(t, [i \in DOMAIN t.filas |-> t.filas[i][column] = seleccionada])
    ELSE t

\* get_global_filters(df) with the widgets holding sel: the table after the date
\* stage and the table returned
get_global_filters(t, sel) ==
    LET con_fecha == EtapaFecha(t, sel.date_range)
        con_comuna == EtapaCategoria(con_fecha, "comuna", Todas, sel.comuna)
        con_ruta == EtapaCategoria(con_comuna, "ruta", Todas, sel.ruta)
        con_nodo == EtapaCategoria(con_ruta, "nodo", Todos, sel.nodo)
    IN  [hecho |-> TRUE, fecha |-> con_fecha, final |-> con_nodo]

\* sel is something the widgets can hold for table t: the dates are within the
\* dates of the table, a selected value is an option of its selectbox, and a widget
\* that is not shown holds nothing
RangoPosible(t, date_range) ==
    IF ~HayWidgetDeFechas(t) THEN date_range = [n |-> 0, inicio |-> Ninguna, fin |-> Ninguna]
    ELSE LET validas == DropNaFecha(ConFechas(t))
             dias == FechaMinima(validas)..FechaMaxima(validas)
         IN  \/ /\ date_range.n = 2
                /\ date_range.inicio \in dias
                /\ date_range.fin \in dias
                /\ date_range.inicio <= date_range.fin
             \/ /\ date_range.n = 1
                /\ date_range.inicio \in dias
                /\ date_range.fin = Ninguna

CategoriaPosible(t, column, sentinela, seleccionada) ==
    IF HayCategorias(t, column)
    THEN seleccionada \in Opciones(t, column) \cup {sentinela}
    ELSE seleccionada = sentinela

SeleccionPosible(t, sel) ==
    LET con_fecha == EtapaFecha(t, sel.date_range)
        con_comuna == EtapaCategoria(con_fecha, "comuna", Todas, sel.comuna)
        con_ruta == EtapaCategoria(con_comuna, "ruta", Todas, sel.ruta)
    IN  /\ RangoPosible(t, sel.date_range)
        /\ CategoriaPosible(con_fecha, "comuna", Todas, sel.comuna)
        /\ CategoriaPosible(con_comuna, "ruta", Todas, sel.ruta)
        /\ CategoriaPosible(con_ruta, "nodo", Todos, sel.nodo)

(***************************************************************************)
(* Input tables of the engine.  Cells are 0/1, the values the engine's     *)
(* contract assumes (preprocess_data, below, does not enforce them on      *)
(* every column).  calcular_porcentaje reads a column through its sum and  *)
(* the row count only, so one column is enumerated per number of ones      *)
(* (ones first).  The columns come from a pool; any subset of it may be    *)
(* present.  A table has at most MaxCells cells (rows times columns): one  *)
(* row with every column, up to ten rows with one column.                  *)
(***************************************************************************)
\* columns of every group and polarity
InputColumns ==
    {"comedor_facil_Acceso", "trasbordo", "entrega_en_dia_programado",
     "alimentos_debidamente_entregados", "vehiculo_limpio_buen_estado",
     "alimentos_de_calidad_cantidad", "contenedores_para_cada_tipoalimento",
     "comunicacion_efectiva"}

\* the six accessibility columns
AccColumns ==
    {"comedor_facil_Acceso", "vehiculo_puede_llegar_a_sitio", "trasbordo",
     "ingreso_apoyo_comunidad", "demora_entregas", "inocuidad_comprometida"}

ColumnasDe(n) == {[i \in 1..n |-> IF i <= k THEN 1 ELSE 0] : k \in 0..n}

ColumnSets(pool, n) == {X \in SUBSET pool : n * Cardinality(X) <= MaxCells}

EsTablaSobre(t, pool) ==
    \E n \in 0..MaxCells : \E S \in ColumnSets(pool, n) :
        \E f \in [S -> ColumnasDe(n)] : t = [len |-> n, data |-> f]

EsTabla(t) == EsTablaSobre(t, InputColumns)

\* the threshold pairs diagnose is called with (hundredths); 80/70 is the default
Umbrales ==
    {[alerta |-> 8000, critico |-> 7000], [alerta |-> 8000, critico |-> 7100],
     [alerta |-> 8000, critico |-> 5000], [alerta |-> 6667, critico |-> 3333],
     [alerta |-> 5000, critico |-> 8000]}

\* the columns calcular_porcentaje is asked for
ColumnasConsultadas ==
    {"entrega_en_dia_programado", "trasbordo", "comunicacion_efectiva"}

\* calls of calcular_indice_grupo as the engine makes them: weights omitted, or
\* the fixed weights of a group
LlamadasFijas ==
    {[columnas |-> columnas_accesibilidad \o columnas_neg, pesos |-> None],
     [columnas |-> columnas_vehiculo, pesos |-> Pesos(pesos_vehiculo)]}

\* calls of calcular_indice_grupo with any weight list of up to MaxPesos weights
PesosLibres == UNION {[1..n -> {0, 4, 10}] : n \in 0..MaxPesos}
LlamadasLibres ==
    {[columnas |-> columnas_vehiculo, pesos |-> ps] :
        ps \in {None} \cup {Pesos(l) : l \in PesosLibres}}

SinIndices ==
    [accesibilidad |-> 0, cumplimiento |-> 0, vehiculo |-> 0, actitudes |-> 0,
     general |-> 0]
SinGrupo ==
    [columnas |-> <<>>, pesos |-> None, usados |-> <<>>, excepcion |-> "",
     resultado |-> 0]
SinRecomendaciones ==
    [corto_plazo |-> <<>>, mediano_plazo |-> <<>>, largo_plazo |-> <<>>]
SinTabla == [len |-> 0, data |-> <<>>]

SinTablaDeFilas == [columnas |-> {}, filas |-> <<>>]
SinFiltro == [funcion |-> ""]
SinSeleccion == [date_range |-> [n |-> 0]]
SinFiltrar == [hecho |-> FALSE]
SinSesion == [filtered_df |-> FALSE]
SinVista == [pagina |-> ""]
SinEntorno == [dado |-> FALSE]
SinCargar == [hecho |-> FALSE]

\* the filters, the pages and the loader before any call, with no input
ReposoPaginas ==
    /\ tabla = SinTablaDeFilas
    /\ filtro = SinFiltro
    /\ filtrada = SinFiltrar
    /\ seleccion = SinSeleccion
    /\ filtrada_app = SinFiltrar
    /\ session_state = SinSesion
    /\ vista = SinVista
    /\ historial = <<>>
    /\ entorno = SinEntorno
    /\ cargada = SinCargar

\* the state before any call, apart from the inputs
Reposo ==
    /\ pc = "inicio"
    /\ columna = ""
    /\ porcentaje = 0
    /\ indices = SinIndices
    /\ umbral_alerta = 0
    /\ umbral_critico = 0
    /\ grupo = SinGrupo
    /\ recomendaciones = SinRecomendaciones
    /\ traza = <<>>
    /\ retorno = SinTabla
    /\ ReposoPaginas

Init ==
    /\ EsTabla(df)
    /\ Reposo
    /\ problemas_criticos = <<>>
    /\ alertas = <<>>
    /\ original = SinTabla
    /\ entrada = SinTabla

CalcularPorcentaje(col) ==
    /\ pc = "inicio"
    /\ pc' = "calcular_porcentaje"
    /\ columna' = col
    /\ porcentaje' = calcular_porcentaje(df, col)
    /\ UNCHANGED <<df, indices, umbral_alerta, umbral_critico, problemas_criticos,
                   alertas, grupo, recomendaciones, traza, original, entrada, retorno>>
    /\ UNCHANGED varsPaginas

CalcularIndiceGrupo(ll) ==
    LET k == Len(SelectCols(ll.columnas, Columns(df)))
        lanza == GrupoLanza(df, ll.columnas, ll.pesos)
    IN  /\ pc = "inicio"
        /\ pc' = "calcular_indice_grupo"
        /\ grupo' =
              [columnas |-> ll.columnas,
               pesos |-> ll.pesos,
               usados |-> IF k = 0 THEN <<>> ELSE PesosAjustados(k, ll.pesos),
               excepcion |-> IF lanza THEN "ZeroDivisionError" ELSE "",
               resultado |-> IF lanza THEN 0
                             ELSE calcular_indice_grupo(df, ll.columnas, ll.pesos)]
        /\ UNCHANGED <<df, columna, porcentaje, indices, umbral_alerta,
                       umbral_critico, problemas_criticos, alertas, recomendaciones, traza,
                       original, entrada, retorno>>
        /\ UNCHANGED varsPaginas

CalcularIndiceGeneral ==
    /\ pc = "inicio"
    /\ pc' = "calcular_indice_general"
    /\ indices' = calcular_indice_general(df)
    /\ UNCHANGED <<df, columna, porcentaje, umbral_alerta, umbral_critico,
                   problemas_criticos, alertas, grupo, recomendaciones, traza, original,
                   entrada, retorno>>
    /\ UNCHANGED varsPaginas

IdentificarProblemas(u) ==
    LET r == identificar_problemas(df, u.alerta, u.critico)
    IN  /\ pc = "inicio"
        /\ pc' = "identificar_problemas"
        /\ umbral_alerta' = u.alerta
        /\ umbral_critico' = u.critico
        /\ problemas_criticos' = r.problemas_criticos
        /\ alertas' = r.alertas
        /\ UNCHANGED <<df, columna, porcentaje, indices, grupo, recomendaciones, traza,
                       original, entrada, retorno>>
        /\ UNCHANGED varsPaginas

Next ==
    \/ \E col \in ColumnasConsultadas : CalcularPorcentaje(col)
    \/ \E ll \in LlamadasFijas : CalcularIndiceGrupo(ll)
    \/ CalcularIndiceGeneral
    \/ \E u \in Umbrales : IdentificarProblemas(u)

\* the engine on the tables of the dashboard
Spec == Init /\ [][Next]_vars

\* the engine on tables of accessibility columns
InitAcc ==
    /\ EsTablaSobre(df, AccColumns)
    /\ Reposo
    /\ problemas_criticos = <<>>
    /\ alertas = <<>>
    /\ original = SinTabla
    /\ entrada = SinTabla

NextAcc ==
    \/ CalcularIndiceGeneral
    \/ \E u \in Umbrales : IdentificarProblemas(u)

SpecAcc == InitAcc /\ [][NextAcc]_vars

\* calcular_indice_grupo on tables of vehicle columns, with any weight list
InitGrupo ==
    /\ EsTablaSobre(df, Range(columnas_vehiculo))
    /\ Reposo
    /\ problemas_criticos = <<>>
    /\ alertas = <<>>
    /\ original = SinTabla
    /\ entrada = SinTabla

NextGrupo == \E ll \in LlamadasLibres : CalcularIndiceGrupo(ll)

SpecGrupo == InitGrupo /\ [][NextGrupo]_vars

(***************************************************************************)
(* generar_recomendaciones on any two lists of entries.  Only the key      *)
(* 'columna' of an entry decides what is appended; the entries are those   *)
(* identificar_problemas builds for a column (valor is not read), over the *)
(* seventeen tracked columns and one column that is not tracked.  The two  *)
(* lists hold at most MaxEntradas entries together.                        *)
(***************************************************************************)
ColumnasRastreadas ==
    UNION {Range(columnas_por_grupo[g].columnas) : g \in DOMAIN columnas_por_grupo}
ColumnaNoRastreada == "valor_trasbordo"
ColumnasDeEntrada == ColumnasRastreadas \cup {ColumnaNoRastreada}

GrupoDe(col) ==
    IF col \in ColumnasRastreadas
    THEN LET g == CHOOSE h \in DOMAIN columnas_por_grupo :
                      col \in Range(columnas_por_grupo[h].columnas)
         IN  columnas_por_grupo[g].grupo
    ELSE ""

EntradaDe(col) ==
    [grupo |-> GrupoDe(col), indicador |-> NombreIndicador(col), valor |-> 0,
     columna |-> col]

EsListaDeEntradas(l, n) ==
    \E cs \in [1..n -> ColumnasDeEntrada] : l = [i \in 1..n |-> EntradaDe(cs[i])]

InitRec ==
    /\ df = SinTabla
    /\ Reposo
    /\ \E n \in 0..MaxEntradas : \E m \in 0..(MaxEntradas - n) :
          /\ EsListaDeEntradas(problemas_criticos, n)
          /\ EsListaDeEntradas(alertas, m)
    /\ original = SinTabla
    /\ entrada = SinTabla

GenerarRecomendaciones ==
    /\ pc = "inicio"
    /\ pc' = "generar_recomendaciones"
    /\ recomendaciones' = generar_recomendaciones(problemas_criticos, alertas)
    /\ traza' = Iteraciones(problemas_criticos, alertas)
    /\ UNCHANGED <<df, columna, porcentaje, indices, umbral_alerta, umbral_critico,
                   problemas_criticos, alertas, grupo, original, entrada, retorno>>
    /\ UNCHANGED varsPaginas

NextRec == GenerarRecomendaciones

SpecRec == InitRec /\ [][NextRec]_vars

(***************************************************************************)
(* preprocess_data on raw tables of up to MaxFilas rows that may have a    *)
(* boolean column (trasbordo), a monetary column (valor_trasbordo) and a   *)
(* column the function does not know (comuna); none has a column fecha.    *)
(* An object column holds texts, numbers and NaN in any mix; a numeric     *)
(* column holds numbers and NaN.                                           *)
(***************************************************************************)
CeldasDeTexto ==
    {Texto("SI"), Texto("si"), Texto("No"), Texto("S"), Texto("n"), Texto("True"),
     Texto("falso"), Texto("Verdadero"), Texto(""), Texto("1"), Texto("2"),
     Texto("x"), Numero(1), Numero(0), NaN}
CeldasNumericas == {Numero(0), Numero(1), Numero(2), NaN}
CeldasDeValor == {Texto("1500"), Texto("x"), Texto("")}
CeldasDeValorNumericas == {Numero(1500), NaN}

ColumnasCrudas(n, deTexto, numericas) ==
    {[dtype |-> "object", celdas |-> f] : f \in [1..n -> deTexto]}
        \cup {[dtype |-> "numeric", celdas |-> f] : f \in [1..n -> numericas]}

EsTablaCruda(t) ==
    \E n \in 0..MaxFilas :
    \E S \in SUBSET {"trasbordo", "valor_trasbordo", "comuna"} :
    \E b \in ColumnasCrudas(n, CeldasDeTexto, CeldasNumericas) :
    \E v \in ColumnasCrudas(n, CeldasDeValor, CeldasDeValorNumericas) :
        t = [len |-> n,
             data |-> [c \in S |->
                          IF c = "trasbordo" THEN b
                          ELSE IF c = "valor_trasbordo" THEN v
                          ELSE [dtype |-> "object",
                                celdas |-> [i \in 1..n |-> Texto("x")]]]]

InitPre ==
    /\ df = SinTabla
    /\ Reposo
    /\ problemas_criticos = <<>>
    /\ alertas = <<>>
    /\ EsTablaCruda(original)
    /\ entrada = original

\* preprocess_data(entrada): the columns are assigned in the object passed, which
\* is also the object returned
PreprocessData ==
    /\ pc = "inicio"
    /\ pc' = "preprocess_data"
    /\ entrada' = preprocess_data(entrada)
    /\ retorno' = preprocess_data(entrada)
    /\ UNCHANGED <<df, columna, porcentaje, indices, umbral_alerta, umbral_critico,
                   problemas_criticos, alertas, grupo, recomendaciones, traza,
                   original>>
    /\ UNCHANGED varsPaginas

NextPre == PreprocessData

SpecPre == InitPre /\ [][NextPre]_vars

(***************************************************************************)
(* identificar_problemas on tables that have all the tracked columns: up   *)
(* to MaxFilas equal rows in which at most MaxBuenas indicators are        *)
(* satisfied (1 in a positive column, 0 in a negative one) and every other *)
(* indicator fails.                                                        *)
(***************************************************************************)
EsTablaCompleta(t) ==
    \E n \in 1..MaxFilas : \E B \in SUBSET ColumnasRastreadas :
        /\ Cardinality(B) <= MaxBuenas
        /\ t = [len |-> n,
                data |-> [c \in ColumnasRastreadas |->
                             [i \in 1..n |->
                                 IF (c \in B) = (c \notin indicadores_negativos)
                                 THEN 1 ELSE 0]]]

InitDiag ==
    /\ EsTablaCompleta(df)
    /\ Reposo
    /\ problemas_criticos = <<>>
    /\ alertas = <<>>
    /\ original = SinTabla
    /\ entrada = SinTabla

NextDiag == \E u \in Umbrales : IdentificarProblemas(u)

SpecDiag == InitDiag /\ [][NextDiag]_vars

(***************************************************************************)
(* The date filters on tables of up to MaxFilas rows, with or without the  *)
(* column fecha.  The dates are on days 0..MaxDia, at 00:00:00, 23:59:59   *)
(* and 23:59:59.5, or null, or illegible.  apply_date_filter and           *)
(* get_global_filters are each called once on the table, in any order.     *)
(***************************************************************************)
Dias == 0..MaxDia
Instantes ==
    {Medianoche(d) + h : d \in Dias,
                         h \in {0, MsPorDia - MsPorSegundo, MsPorDia - MsPorSegundo \div 2}}
FechasDeCelda == Instantes \cup {FechaNula, FechaIlegible}

FilaDe(i, f, c, r, n) == [idx |-> i, fecha |-> f, comuna |-> c, ruta |-> r, nodo |-> n]

EsTablaDeFechas(t) ==
    \E n \in 0..MaxFilas :
        \/ \E fs \in [1..n -> FechasDeCelda] :
              t = [columnas |-> {"fecha", "comuna"},
                   filas |-> [i \in 1..n |-> FilaDe(i, fs[i], "1", CategoriaNula,
                                                    CategoriaNula)]]
        \/ t = [columnas |-> {"comuna"},
                filas |-> [i \in 1..n |-> FilaDe(i, FechaNula, "1", CategoriaNula,
                                                 CategoriaNula)]]

FechasDeArgumento == Dias \cup {Ninguna}
RangosDelWidget ==
    [n : {0, 1, 2}, inicio : FechasDeArgumento, fin : FechasDeArgumento]
SeleccionesDeFecha ==
    {[date_range |-> dr, comuna |-> Todas, ruta |-> Todas, nodo |-> Todos] :
        dr \in RangosDelWidget}

InitFiltro(filtro0, Selecciones, Entornos) ==
    /\ pc = "inicio"
    /\ df = SinTabla
    /\ columna = ""
    /\ porcentaje = 0
    /\ indices = SinIndices
    /\ umbral_alerta = 0
    /\ umbral_critico = 0
    /\ problemas_criticos = <<>>
    /\ alertas = <<>>
    /\ grupo = SinGrupo
    /\ recomendaciones = SinRecomendaciones
    /\ traza = <<>>
    /\ original = SinTabla
    /\ entrada = SinTabla
    /\ retorno = SinTabla
    /\ filtro = filtro0
    /\ filtrada = SinFiltrar
    /\ seleccion \in Selecciones
    /\ filtrada_app = SinFiltrar
    /\ session_state = SinSesion
    /\ vista = SinVista
    /\ historial = <<>>
    /\ entorno \in Entornos
    /\ cargada = SinCargar

ApplyDateFilter(start_date, end_date) ==
    /\ ~filtrada.hecho
    /\ pc' = "apply_date_filter"
    /\ filtro' = [funcion |-> "apply_date_filter", start_date |-> start_date,
                  end_date |-> end_date]
    /\ filtrada' = [hecho |-> TRUE, tabla |-> apply_date_filter(tabla, start_date, end_date)]
    /\ UNCHANGED <<varsMotor, tabla, seleccion, filtrada_app, varsSesion, varsCargador>>

GetGlobalFilters(sel) ==
    /\ ~filtrada_app.hecho
    /\ SeleccionPosible(tabla, sel)
    /\ pc' = "get_global_filters"
    /\ seleccion' = sel
    /\ filtrada_app' = get_global_filters(tabla, sel)
    /\ UNCHANGED <<varsMotor, tabla, filtro, filtrada, varsSesion, varsCargador>>

NextFecha ==
    \/ \E a, b \in FechasDeArgumento : ApplyDateFilter(a, b)
    \/ \E sel \in SeleccionesDeFecha : GetGlobalFilters(sel)

InitFecha ==
    /\ EsTablaDeFechas(tabla)
    /\ InitFiltro(SinFiltro, {SinSeleccion}, {SinEntorno})

SpecFecha == InitFecha /\ [][NextFecha]_vars

(***************************************************************************)
(* The filters applied one after the other, in any order, each once, with  *)
(* the dates and the values the user selected.  The tables have up to      *)
(* MaxFilas rows taken from a catalogue of rows of days 0 and 1 and null   *)
(* dates, two comunas and two rutas, and the columns fecha, comuna, ruta   *)
(* and nodo, or all but fecha, or all but comuna.                          *)
(***************************************************************************)
FilasDeCatalogo ==
    {[fecha |-> Medianoche(0), comuna |-> "1", ruta |-> "A"],
     [fecha |-> Medianoche(1), comuna |-> "1", ruta |-> "B"],
     [fecha |-> Medianoche(1), comuna |-> "2", ruta |-> "A"],
     [fecha |-> Medianoche(0), comuna |-> "2", ruta |-> "B"],
     [fecha |-> FechaNula, comuna |-> "1", ruta |-> "A"],
     [fecha |-> FechaNula, comuna |-> "2", ruta |-> "B"]}

ColumnasDeFiltro ==
    {{"fecha", "comuna", "ruta", "nodo"}, {"comuna", "ruta", "nodo"},
     {"fecha", "ruta", "nodo"}}

EsTablaDeCategorias(t) ==
    \E n \in 0..MaxFilas : \E cs \in ColumnasDeFiltro :
    \E fs \in [1..n -> FilasDeCatalogo] :
        t = [columnas |-> cs,
             filas |-> [i \in 1..n |->
                           FilaDe(i,
                                  IF "fecha" \in cs THEN fs[i].fecha ELSE FechaNula,
                                  IF "comuna" \in cs THEN fs[i].comuna ELSE CategoriaNula,
                                  fs[i].ruta, "N1")]]

SeleccionesDeFiltro ==
    [start_date : {Ninguna, 0}, end_date : {Ninguna, 0, 1},
     comuna : {<<>>, <<Todas>>, <<Todos>>, <<"1">>, <<"1", "2">>, <<"3">>, <<Todas, "1">>},
     ruta : {<<Todas>>, <<"A">>},
     nodo : {<<Todos>>, <<"N1">>}]

FiltrosDeCategoria == {"comuna", "ruta", "nodo"}

\* the table the next filter is given: the one the last filter returned
TablaActual == IF filtrada.hecho THEN filtrada.tabla ELSE tabla

SinAplicar == [funcion |-> "", aplicados |-> {}]

AplicarFiltroDeFecha ==
    /\ "fecha" \notin filtro.aplicados
    /\ pc' = "apply_date_filter"
    /\ filtro' = [funcion |-> "apply_date_filter",
                  aplicados |-> filtro.aplicados \cup {"fecha"}]
    /\ filtrada' = [hecho |-> TRUE,
                    tabla |-> apply_date_filter(TablaActual, seleccion.start_date,
                                                seleccion.end_date)]
    /\ UNCHANGED <<varsMotor, tabla, seleccion, filtrada_app, varsSesion, varsCargador>>

AplicarFiltroDeCategoria(column) ==
    /\ column \notin filtro.aplicados
    /\ pc' = "apply_category_filter"
    /\ filtro' = [funcion |-> "apply_category_filter",
                  aplicados |-> filtro.aplicados \cup {column}]
    /\ filtrada' = [hecho |-> TRUE,
                    tabla |-> apply_category_filter(TablaActual, column,
                                                    seleccion[column])]
    /\ UNCHANGED <<varsMotor, tabla, seleccion, filtrada_app, varsSesion, varsCargador>>

NextFiltros ==
    \/ AplicarFiltroDeFecha
    \/ \E column \in FiltrosDeCategoria : AplicarFiltroDeCategoria(column)

InitFiltros ==
    /\ EsTablaDeCategorias(tabla)
    /\ InitFiltro(SinAplicar, SeleccionesDeFiltro, {SinEntorno})

SpecFiltros == InitFiltros /\ [][NextFiltros]_vars

(***************************************************************************)
(* One session: runs of the main page and views of the sub-pages, in any   *)
(* order.  Every run and every view is given the table the loader returns  *)
(* at that moment, which may be empty.  historial records the tables the   *)
(* runs with data have computed for the key filtered_df; the number of     *)
(* such runs is bounded by MaxPasos.                                       *)
(***************************************************************************)
MaxPasos == 3

Paginas == {"2_accesibilidad", "3_cumplimiento", "4_vehiculo", "5_actitudes"}

ColumnasCargadas == {"fecha", "comuna", "ruta", "nodo"}

\* what load_data_from_sheets may return: no table, two rows, one row
TablasCargadas ==
    {SinTablaDeFilas,
     [columnas |-> ColumnasCargadas,
      filas |-> <<FilaDe(1, Medianoche(0), "1", "A", "N1"),
                  FilaDe(2, Medianoche(0), "2", "A", "N1")>>],
     [columnas |-> ColumnasCargadas,
      filas |-> <<FilaDe(1, Medianoche(0), "2", "A", "N1")>>]}

SeleccionesDeSesion ==
    [date_range : {[n |-> 0, inicio |-> Ninguna, fin |-> Ninguna],
                   [n |-> 2, inicio |-> 0, fin |-> 0]},
     comuna : {Todas, "1", "2"}, ruta : {Todas}, nodo : {Todos}]

\* variant: the key is written whether or not the load gave data
main_sin_retorno(t, sel, ss) ==
    [filtered_df |-> TRUE, tabla |-> get_global_filters(t, sel).final]

\* main(): st.session_state after the run, ss being the session state before
main(t, sel, ss) ==
    IF EsVacia(t) THEN ss
    ELSE [filtered_df |-> TRUE, tabla |-> get_global_filters(t, sel).final]

\* get_data() of a sub-page, t being what the loader returns
get_data(ss, t) == IF ss.filtered_df THEN ss.tabla ELSE t

MainRun(t, sel) ==
    /\ Len(historial) < MaxPasos
    /\ SeleccionPosible(t, sel)
    /\ pc' = IF EsVacia(t) THEN "main_sin_datos" ELSE "main"
    /\ tabla' = t
    /\ seleccion' = IF EsVacia(t) THEN seleccion ELSE sel
    /\ filtrada_app' = IF EsVacia(t) THEN filtrada_app ELSE get_global_filters(t, sel)
    /\ session_state' = main(t, sel, session_state)
    /\ historial' = IF EsVacia(t) THEN historial
                    ELSE Append(historial, get_global_filters(t, sel).final)
    /\ UNCHANGED <<varsMotor, filtro, filtrada, vista, varsCargador>>

GetData(pagina, t) ==
    /\ pc' = "get_data"
    /\ vista' = [pagina |-> pagina, cargada |-> t,
                 tabla |-> get_data(session_state, t)]
    /\ UNCHANGED <<varsMotor, varsFiltros, session_state, historial, varsCargador>>

NextSesion ==
    \/ \E t \in TablasCargadas : \E sel \in SeleccionesDeSesion : MainRun(t, sel)
    \/ \E pagina \in Paginas : \E t \in TablasCargadas : GetData(pagina, t)

InitSesion ==
    /\ tabla = SinTablaDeFilas
    /\ InitFiltro(SinFiltro, {SinSeleccion}, {SinEntorno})

SpecSesion == InitSesion /\ [][NextSesion]_vars

(***************************************************************************)
(* load_data_from_sheets.  entorno says what the call meets: whether the   *)
(* libraries were imported, what each credential source gives, and what    *)
(* each call to the Google Sheets client does.  The result records the     *)
(* exception that leaves the function (none: ""), the table returned, the  *)
(* source of the credentials and the sources whose credentials were read.  *)
(***************************************************************************)
\* GOOGLE_APPLICATION_CREDENTIALS: not set, names no file, the file fails to
\* load, the file gives credentials
EstadosDeEnv == {"ausente", "sin_archivo", "error", "ok"}
\* credentials_path: not given, names no file, fails to load, gives credentials
EstadosDeRuta == {"ninguna", "sin_archivo", "error", "ok"}
\* credentials.json: no such file, fails to load, gives credentials
EstadosDeLocal == {"sin_archivo", "error", "ok"}
\* st.secrets: reading raises, no gcp_service_account, it fails to load, it
\* gives credentials
EstadosDeSecrets == {"lanza", "ninguno", "error", "ok"}
\* client.open_by_key: no spreadsheet_id, APIError, another exception, opened
EstadosPorId == {"sin_id", "api_error", "error", "ok"}
\* client.open: no spreadsheet_name, SpreadsheetNotFound, another exception,
\* opened
EstadosPorNombre == {"sin_nombre", "no_encontrada", "error", "ok"}
\* spreadsheet.worksheet: WorksheetNotFound, another exception, found
EstadosDeWorksheet == {"no_encontrada", "error", "ok"}
\* worksheet.get_all_records: raises, no records, records
EstadosDeRecords == {"error", "vacio", "datos"}

Entornos ==
    [dado : {TRUE}, gspread : BOOLEAN, env : EstadosDeEnv, ruta : EstadosDeRuta,
     local : EstadosDeLocal, secrets : EstadosDeSecrets, authorize : {"error", "ok"},
     por_id : EstadosPorId, por_nombre : EstadosPorNombre,
     worksheet : EstadosDeWorksheet, records : EstadosDeRecords,
     preprocess : {"error", "ok"}]

\* the table preprocess_data returns for the records of the worksheet
TablaConDatos ==
    [columnas |-> ColumnasCargadas,
     filas |-> <<FilaDe(1, Medianoche(0), "1", "A", "N1")>>]

\* the credentials after one more source: it is read when none were found so
\* far and it is there, and gives credentials when its load succeeds
TrasFuente(cr, nombre, esta, estado) ==
    IF cr.fuente = "" /\ esta
    THEN [fuente |-> IF estado = "ok" THEN nombre ELSE "",
          leidas |-> Append(cr.leidas, nombre)]
    ELSE cr

\* lines 44-94: the credentials and the sources read to get them
Credenciales(e) ==
    LET c1 == TrasFuente([fuente |-> "", leidas |-> <<>>], "env",
                         e.env # "ausente" /\ e.env # "sin_archivo", e.env)
        c2 == TrasFuente(c1, "ruta",
                         e.ruta # "ninguna" /\ e.ruta # "sin_archivo", e.ruta)
        c3 == TrasFuente(c2, "local", e.local # "sin_archivo", e.local)
        c4 == TrasFuente(c3, "secrets",
                         e.secrets # "lanza" /\ e.secrets # "ninguno", e.secrets)
    IN  c4

Devuelve(t) == [lanza |-> "", tabla |-> t]
Lanza(x) == [lanza |-> x, tabla |-> SinTablaDeFilas]

\* lines 102-155: the body of the try
CuerpoDelTry(e) ==
    IF e.authorize = "error" THEN Lanza("Exception")
    ELSE LET por_id == e.por_id = "ok"
             abierta == por_id \/ (e.por_nombre = "ok")
         IN  IF ~por_id /\ e.por_nombre \in {"no_encontrada", "error"}
             THEN Devuelve(SinTablaDeFilas)
             ELSE IF ~abierta THEN Devuelve(SinTablaDeFilas)
             ELSE IF e.worksheet = "no_encontrada" THEN Lanza("WorksheetNotFound")
             ELSE IF e.worksheet = "error" THEN Lanza("Exception")
             ELSE IF e.records = "error" THEN Lanza("Exception")
             ELSE IF e.records = "vacio" THEN Devuelve(SinTablaDeFilas)
             ELSE IF e.preprocess = "error" THEN Lanza("Exception")
             ELSE Devuelve(TablaConDatos)

\* variant: only WorksheetNotFound is handled
ManejarSoloWorksheetNotFound(r) ==
    IF r.lanza = "WorksheetNotFound" THEN Devuelve(SinTablaDeFilas) ELSE r

\* lines 157-166: the handlers of the try
Manejar(r) ==
    IF r.lanza = "WorksheetNotFound" THEN Devuelve(SinTablaDeFilas)
    ELSE IF r.lanza # "" THEN Devuelve(SinTablaDeFilas)
    ELSE r

load_data_from_sheets(e) ==
    IF ~e.gspread
    THEN [hecho |-> TRUE, excepcion |-> "", tabla |-> SinTablaDeFilas,
          fuente |-> "", leidas |-> <<>>, conectado |-> FALSE]
    ELSE LET cr == Credenciales(e)
         IN  IF cr.fuente = ""
             THEN [hecho |-> TRUE, excepcion |-> "", tabla |-> SinTablaDeFilas,
                   fuente |-> "", leidas |-> cr.leidas, conectado |-> FALSE]
             ELSE LET r == Manejar(CuerpoDelTry(e))
                  IN  [hecho |-> TRUE, excepcion |-> r.lanza, tabla |-> r.tabla,
                       fuente |-> cr.fuente, leidas |-> cr.leidas,
                       conectado |-> TRUE]

LoadDataFromSheets ==
    /\ ~cargada.hecho
    /\ pc' = "load_data_from_sheets"
    /\ cargada' = load_data_from_sheets(entorno)
    /\ UNCHANGED <<varsMotor, varsFiltros, varsSesion, entorno>>

NextCargador == LoadDataFromSheets

InitCargador ==
    /\ tabla = SinTablaDeFilas
    /\ InitFiltro(SinFiltro, {SinSeleccion}, Entornos)

SpecCargador == InitCargador /\ [][NextCargador]_vars

(***************************************************************************)
(* Properties.                                                             *)
(***************************************************************************)
Tracked == UNION {Range(columnas_por_grupo[g].columnas) : g \in 1..4}
EnLista(lista, col) == \E i \in 1..Len(lista) : lista[i].columna = col
Unos(t, col) == Cardinality({i \in 1..t.len : t.data[col][i] = 1})
Abs(x) == IF x < 0 THEN -x ELSE x
\* v is a / b rounded to the nearest integer (b > 0), however a tie is broken
EsRedondeo(v, a, b) == 2 * Abs(v * b - a) <= b
Diagnosticado == pc = "identificar_problemas"
ConIndices == pc = "calcular_indice_general"
ConPorcentaje == pc = "calcular_porcentaje"
NegativosDeclarados ==
    {"trasbordo", "ingreso_apoyo_comunidad", "demora_entregas",
     "inocuidad_comprometida"}
\* the evaluated value of a present column: the percentage, or 100 - percentage
Evaluado(col) ==
    IF col \in NegativosDeclarados
    THEN 10000 - calcular_porcentaje(df, col)
    ELSE calcular_porcentaje(df, col)
SieteDeDiez ==
    /\ df.len = 10
    /\ Columns(df) = {"entrega_en_dia_programado"}
    /\ Unos(df, "entrega_en_dia_programado") = 7

\* C1: after diagnose, every tracked indicator whose column is present is in
\* critical_list iff its evaluated value v < critical_threshold, in alert_list iff
\* critical_threshold <= v < alert_threshold, and in neither list otherwise; a
\* column that is 1 in 7 of 10 rows evaluates to 70, is not critical at threshold
\* 70 and is critical at threshold 71.
C1_Clasificacion ==
    Diagnosticado =>
        /\ \A col \in Tracked \cap Columns(df) :
              /\ EnLista(problemas_criticos, col) <=> Evaluado(col) < umbral_critico
              /\ EnLista(alertas, col) <=>
                    (umbral_critico <= Evaluado(col) /\ Evaluado(col) < umbral_alerta)
        /\ SieteDeDiez =>
              /\ Evaluado("entrega_en_dia_programado") = 7000
              /\ umbral_critico = 7000 =>
                    ~EnLista(problemas_criticos, "entrega_en_dia_programado")
              /\ umbral_critico = 7100 =>
                    EnLista(problemas_criticos, "entrega_en_dia_programado")

\* C1 witness: the 7-of-10 table diagnosed at critical threshold 70: the value 70
\* sits on the boundary and is reported as an alert, not as critical.
C1_Witness ==
    /\ Diagnosticado
    /\ SieteDeDiez
    /\ umbral_critico = 7000
    /\ problemas_criticos = <<>>
    /\ Len(alertas) = 1
    /\ alertas[1].valor = 7000

\* C2 (as claimed): for every table with zero rows, whatever columns it has,
\* diagnose returns two empty lists.
C2_VaciaSinProblemas ==
    (Diagnosticado /\ df.len = 0) => (problemas_criticos = <<>> /\ alertas = <<>>)

\* the weights the fixed tables give each column, in tenths
PesoPropio ==
    [entrega_en_dia_programado |-> 6, alimentos_debidamente_entregados |-> 4,
     vehiculo_limpio_buen_estado |-> 3, alimentos_de_calidad_cantidad |-> 4,
     contenedores_para_cada_tipoalimento |-> 3]
RECURSIVE SumaSobre(_, _)
SumaSobre(S, f) ==
    IF S = {} THEN 0
    ELSE LET c == CHOOSE x \in S : TRUE IN f[c] + SumaSobre(S \ {c}, f)
\* indice is the mean of the percentages of the columns S weighted by PesoPropio
EsMediaPonderada(indice, S) ==
    EsRedondeo(indice,
               SumaSobre(S, [c \in S |-> PesoPropio[c] * calcular_porcentaje(df, c)]),
               SumaSobre(S, [c \in S |-> PesoPropio[c]]))

\* C3 (as claimed): for every non-empty set S of compliance (vehicle) columns
\* present, the compliance (vehicle) index is the mean of their percentages
\* weighted by each column's own weight (0.6/0.4; 0.3/0.4/0.3), renormalized over
\* S and rounded to 2 decimals.
C3_PesosPropios ==
    ConIndices =>
        /\ Range(columnas_cumplimiento) \cap Columns(df) # {} =>
              EsMediaPonderada(indices.cumplimiento,
                               Range(columnas_cumplimiento) \cap Columns(df))
        /\ Range(columnas_vehiculo) \cap Columns(df) # {} =>
              EsMediaPonderada(indices.vehiculo,
                               Range(columnas_vehiculo) \cap Columns(df))

\* C4: percentage returns 0 when the column is absent or the table has no rows;
\* otherwise 100 * (sum of the column) / (rows of the table), rounded to 2
\* decimals.
C4_Porcentaje ==
    ConPorcentaje =>
        IF columna \notin Columns(df) \/ df.len = 0
        THEN porcentaje = 0
        ELSE EsRedondeo(porcentaje, 10000 * SumSeq(df.data[columna]), df.len)

\* C4 witness: a column present with 1 in one of three rows gives 33.33.
C4_Witness ==
    /\ ConPorcentaje
    /\ columna \in Columns(df)
    /\ df.len = 3
    /\ Unos(df, columna) = 1
    /\ porcentaje = 3333

SoloCerosYUnos(t) ==
    \A c \in Columns(t) : \A i \in 1..t.len : t.data[c][i] \in {0, 1}
EnRango(x) == 0 <= x /\ x <= 10000

\* C5: on a table whose indicator columns hold only 0/1, percentage, the four
\* group indices and the overall index are in [0, 100].
C5_Rango ==
    SoloCerosYUnos(df) =>
        /\ ConPorcentaje => EnRango(porcentaje)
        /\ ConIndices =>
              /\ EnRango(indices.accesibilidad)
              /\ EnRango(indices.cumplimiento)
              /\ EnRango(indices.vehiculo)
              /\ EnRango(indices.actitudes)
              /\ EnRango(indices.general)

\* C5 witness: every group has several columns at 100 and the indices reach
\* the upper end of the range.
C5_Witness ==
    /\ ConIndices
    /\ SoloCerosYUnos(df)
    /\ Cardinality(Columns(df) \cap Range(columnas_vehiculo)) = 3
    /\ Cardinality(Columns(df) \cap Range(columnas_cumplimiento)) = 2
    /\ {"comedor_facil_Acceso", "trasbordo"} \subseteq Columns(df)
    /\ indices.accesibilidad = 10000
    /\ indices.cumplimiento = 10000
    /\ indices.vehiculo = 10000
    /\ indices.general = 10000

\* C6: no indicator is in both lists returned by diagnose, and none appears
\* twice in either list.
C6_SinRepetidos ==
    Diagnosticado =>
        /\ \A i \in 1..Len(problemas_criticos) : \A j \in 1..Len(alertas) :
              problemas_criticos[i].columna # alertas[j].columna
        /\ \A i, j \in 1..Len(problemas_criticos) :
              i # j => problemas_criticos[i].columna # problemas_criticos[j].columna
        /\ \A i, j \in 1..Len(alertas) :
              i # j => alertas[i].columna # alertas[j].columna

\* C6 witness: a diagnosis with entries in both lists.
C6_Witness ==
    /\ Diagnosticado
    /\ Len(problemas_criticos) >= 2
    /\ Len(alertas) >= 2

Ascendente(lista) ==
    \A i \in 1..(Len(lista) - 1) : lista[i].valor <= lista[i + 1].valor

\* C7: both lists returned by diagnose are sorted ascending by value.
C7_Ordenadas ==
    Diagnosticado => (Ascendente(problemas_criticos) /\ Ascendente(alertas))

\* C7 witness: the critical entries were found in an order that is not
\* ascending, and are returned with the worst first.
C7_Witness ==
    /\ Diagnosticado
    /\ Len(problemas_criticos) >= 2
    /\ problemas_criticos[1].valor < problemas_criticos[Len(problemas_criticos)].valor
    /\ ~Ascendente(SelectSeq(Analizados(df), LAMBDA e : e.valor < umbral_critico))

\* C8: an entry of a negative-polarity indicator (trasbordo,
\* ingreso_apoyo_comunidad, demora_entregas, inocuidad_comprometida) reports
\* exactly 100 - percentage and a label with the "Ausencia de " prefix; an entry
\* of any other indicator reports the plain percentage and the plain label; a
\* trasbordo column that is 1 in all rows evaluates to 0 and is critical.
EntradaCorrecta(e) ==
    IF e.columna \in NegativosDeclarados
    THEN /\ e.valor = 10000 - calcular_porcentaje(df, e.columna)
         /\ e.indicador = "Ausencia de " \o nombres_legibles[e.columna]
    ELSE /\ e.valor = calcular_porcentaje(df, e.columna)
         /\ e.indicador = nombres_legibles[e.columna]
TrasbordoEnTodas ==
    /\ df.len > 0
    /\ "trasbordo" \in Columns(df)
    /\ Unos(df, "trasbordo") = df.len
C9_AusentesOmitidas ==
    Diagnosticado =>
        \A col \in Tracked :
            col \notin Columns(df) =>
                (~EnLista(problemas_criticos, col) /\ ~EnLista(alertas, col))

\* C9 witness: a table with rows that lacks some tracked columns and has
\* problems reported for the ones it has.
C9_Witness ==
    /\ Diagnosticado
    /\ df.len > 0
    /\ Columns(df) = {"entrega_en_dia_programado", "comunicacion_efectiva"}
    /\ Len(problemas_criticos) = 2

\* C10: the overall index is the mean, rounded to 2 decimals, of the group
\* indices that are not 0, and 0 when all four are 0; with compliance columns
\* only it equals the compliance index.
GruposNoCero ==
    {g \in {"accesibilidad", "cumplimiento", "vehiculo", "actitudes"} : indices[g] # 0}
C10_General ==
    ConIndices =>
        /\ IF GruposNoCero = {} THEN indices.general = 0
           ELSE EsRedondeo(indices.general,
                           SumaSobre(GruposNoCero, indices),
                           Cardinality(GruposNoCero))
        /\ (Columns(df) # {} /\ Columns(df) \subseteq Range(columnas_cumplimiento)) =>
              indices.general = indices.cumplimiento

\* C10 witness: accessibility has no column, compliance is 60 and vehicle 100:
\* the overall index is 80, the mean of the two.
C10_Witness ==
    /\ ConIndices
    /\ Columns(df) \cap (Range(columnas_accesibilidad) \cup Range(columnas_neg)) = {}
    /\ indices.accesibilidad = 0
    /\ indices.cumplimiento = 6000
    /\ indices.vehiculo = 10000
    /\ indices.actitudes = 0
    /\ indices.general = 8000

ConGrupo == pc = "calcular_indice_grupo"
\* the integers that are a / b rounded to the nearest (b > 0)
Cand(a, b) == {v \in {a \div b, a \div b + 1} : EsRedondeo(v, a, b)}
PosPresentes == Range(columnas_accesibilidad) \cap Columns(df)
NegPresentes == Range(columnas_neg) \cap Columns(df)
\* sum of the percentages of the positive accessibility columns present
SumaPos == SumaSobre(PosPresentes, [c \in PosPresentes |-> calcular_porcentaje(df, c)])
\* sum of 100 - percentage over the negative accessibility columns present
SumaNeg ==
    SumaSobre(NegPresentes, [c \in NegPresentes |-> 10000 - calcular_porcentaje(df, c)])

\* C11: for a table with rows, the accessibility index is 0.6 * P + 0.4 * N when
\* positive and negative accessibility columns are both present, P being the
\* equal-weight mean of the percentages of the positive columns present and N the
\* equal-weight mean of 100 - percentage over the negative columns present; it is
\* P when only positive columns are present, N when only negative ones are, and 0
\* when none is (every result rounded to 2 decimals).
C11_Accesibilidad ==
    (ConIndices /\ df.len > 0) =>
        IF PosPresentes # {} /\ NegPresentes # {}
        THEN \E P \in Cand(SumaPos, Cardinality(PosPresentes)) :
             \E N \in Cand(SumaNeg, Cardinality(NegPresentes)) :
                 EsRedondeo(indices.accesibilidad, 6 * P + 4 * N, 10)
        ELSE IF PosPresentes # {}
        THEN indices.accesibilidad \in Cand(SumaPos, Cardinality(PosPresentes))
        ELSE IF NegPresentes # {}
        THEN indices.accesibilidad \in Cand(SumaNeg, Cardinality(NegPresentes))
        ELSE indices.accesibilidad = 0

\* C11 witness: three rows, two positive columns at 100 and 0 (P = 50) and one
\* negative column at 33.33 (N = 66.67): the index is 30 + 26.668 = 56.67.
C11_Witness ==
    /\ ConIndices
    /\ df.len = 3
    /\ Columns(df) = {"comedor_facil_Acceso", "vehiculo_puede_llegar_a_sitio",
                      "trasbordo"}
    /\ Unos(df, "comedor_facil_Acceso") = 3
    /\ Unos(df, "vehiculo_puede_llegar_a_sitio") = 0
    /\ Unos(df, "trasbordo") = 1
    /\ indices.accesibilidad = 5667

\* C11 witness of the one-sided case: only a negative column, 1 in one of four
\* rows: the index is N = 75.
C11_WitnessSoloNegativas ==
    /\ ConIndices
    /\ df.len = 4
    /\ Columns(df) = {"inocuidad_comprometida"}
    /\ Unos(df, "inocuidad_comprometida") = 1
    /\ indices.accesibilidad = 7500

\* the columns of the call that are in the table
PresentesGrupo == SelectCols(grupo.columnas, Columns(df))

\* C12 (as claimed): for every weight list given to calcular_indice_grupo and every
\* table with at least one of the columns present, weights are applied to exactly
\* the columns present and the applied (renormalized) weights sum to 1: the call
\* returns, there is one weight per column present, and their sum, by which each is
\* divided, is not zero.
C12_PesosSumanUno ==
    (ConGrupo /\ PresentesGrupo # <<>>) =>
        /\ grupo.excepcion = ""
        /\ Len(grupo.usados) = Len(PresentesGrupo)
        /\ SumSeq(grupo.usados) # 0

\* C13: for a table with zero rows, whatever columns it has (negative accessibility
\* columns included), calcular_porcentaje, calcular_indice_grupo, the four group
\* indices and the overall index return 0.
C13_VaciaCero ==
    df.len = 0 =>
        /\ ConPorcentaje => porcentaje = 0
        /\ ConGrupo => (grupo.excepcion = "" /\ grupo.resultado = 0)
        /\ ConIndices => indices = SinIndices

\* C13 witness: a zero-row table with a negative accessibility column and columns
\* of the other groups, after the indices are computed.
C13_Witness ==
    /\ ConIndices
    /\ df.len = 0
    /\ {"trasbordo", "comedor_facil_Acceso", "entrega_en_dia_programado"}
          \subseteq Columns(df)
    /\ indices.accesibilidad = 0
    /\ indices.general = 0

\* C13 witness for calcular_indice_grupo: a zero-row table with vehicle columns,
\* called with the vehicle weights.
C13_WitnessGrupo ==
    /\ ConGrupo
    /\ df.len = 0
    /\ grupo.pesos.dado
    /\ PresentesGrupo # <<>>
    /\ grupo.resultado = 0

ConRecomendaciones == pc = "generar_recomendaciones"
EnCriticos(col) == EnLista(problemas_criticos, col)
\* the texts the iterations appended to the horizon `plazo`, in order
TextosDe(plazo) ==
    LET sel == SelectSeq(traza, LAMBDA r : r.plazo = plazo)
    IN  [i \in 1..Len(sel) |-> sel[i].texto]
Plazos == {"corto_plazo", "mediano_plazo"}
CalidadContenedoresInocuidad ==
    {"alimentos_de_calidad_cantidad", "contenedores_para_cada_tipoalimento",
     "inocuidad_comprometida"}
\* the horizon the severity rule gives a column
PlazoPorSeveridad(col) == IF EnCriticos(col) THEN "corto_plazo" ELSE "mediano_plazo"
\* the advisory of iteration i is in the returned list of the horizon h
Colocada(i, h) ==
    /\ traza[i].plazo = h
    /\ traza[i].texto \in Range(recomendaciones[h])

\* C14 (as claimed): every flagged tracked indicator other than
\* alimentos_de_calidad_cantidad, contenedores_para_cada_tipoalimento and
\* inocuidad_comprometida has its advisory in corto_plazo when it is in the
\* critical list and in mediano_plazo when it is only in the alert list.
C14_SegunSeveridad ==
    ConRecomendaciones =>
        \A i \in 1..Len(traza) :
            traza[i].columna \in Tracked \ CalidadContenedoresInocuidad =>
                Colocada(i, PlazoPorSeveridad(traza[i].columna))

\* the columns whose horizon follows the severity, and the fixed ones
SegunSeveridad ==
    {"comedor_facil_Acceso", "vehiculo_puede_llegar_a_sitio", "demora_entregas",
     "entrega_en_dia_programado", "vehiculo_limpio_buen_estado"}
SiempreCorto == {"inocuidad_comprometida", "alimentos_de_calidad_cantidad"}
SiempreMediano == Tracked \ (SegunSeveridad \cup SiempreCorto)

\* C14 (amended): the advisory goes to corto_plazo when the indicator is in the
\* critical list and to mediano_plazo when it is only in the alert list for
\* comedor_facil_Acceso, vehiculo_puede_llegar_a_sitio, demora_entregas,
\* entrega_en_dia_programado and vehiculo_limpio_buen_estado; whatever the list,
\* it goes to corto_plazo for inocuidad_comprometida and
\* alimentos_de_calidad_cantidad and to mediano_plazo for the other ten tracked
\* indicators.
C14_Colocacion ==
    ConRecomendaciones =>
        \A i \in 1..Len(traza) :
            LET col == traza[i].columna
            IN  /\ col \in SegunSeveridad => Colocada(i, PlazoPorSeveridad(col))
                /\ col \in SiempreCorto => Colocada(i, "corto_plazo")
                /\ col \in SiempreMediano => Colocada(i, "mediano_plazo")

\* C14 witness: demora_entregas critical and entrega_en_dia_programado only an
\* alert: one advisory in each horizon; and trasbordo critical, whose advisory is
\* in mediano_plazo all the same.
C14_Witness ==
    /\ ConRecomendaciones
    /\ Len(problemas_criticos) = 2
    /\ problemas_criticos[1].columna = "demora_entregas"
    /\ problemas_criticos[2].columna = "trasbordo"
    /\ Len(alertas) = 1
    /\ alertas[1].columna = "entrega_en_dia_programado"
    /\ recomendaciones.corto_plazo = <<traza[1].texto>>
    /\ recomendaciones.mediano_plazo = <<traza[2].texto, traza[3].texto>>

FamiliaActitud ==
    {"actitud_conductor_respetuosa_colaborativa",
     "actitud_auxiliar_respetuosa_colaborativa",
     "actitud_gestora_respetuosa_colaborativa"}
SoloRastreadas == \A i \in 1..Len(traza) : traza[i].columna \in Tracked

\* C15: for lists whose entries are of tracked columns, every entry gets one
\* advisory, appended to exactly one of corto_plazo and mediano_plazo (one append
\* per entry, before duplicates are removed); the text depends only on the entry's
\* column; no tracked column is left without a text; and the text of the
\* "actitud" substring branch is given to the three actitud_* columns only.
C15_UnaPorEntrada ==
    (ConRecomendaciones /\ SoloRastreadas) =>
        /\ Len(traza) = Len(problemas_criticos) + Len(alertas)
        /\ \A i \in 1..Len(traza) :
              /\ traza[i].columna = (problemas_criticos \o alertas)[i].columna
              /\ traza[i].texto # ""
              /\ traza[i].plazo \in Plazos
        /\ Len(TextosDe("corto_plazo")) + Len(TextosDe("mediano_plazo")) = Len(traza)
        /\ \A i, j \in 1..Len(traza) :
              /\ traza[i].columna = traza[j].columna => traza[i].texto = traza[j].texto
              /\ (traza[i].columna \in FamiliaActitud /\ traza[j].columna \in FamiliaActitud)
                    => traza[i].texto = traza[j].texto
              /\ (traza[i].columna \in FamiliaActitud /\ traza[j].columna \notin FamiliaActitud)
                    => traza[i].texto # traza[j].texto

\* C15 witness: an attitude column critical, another attitude column and
\* comunicacion_efectiva as alerts: three appends to mediano_plazo, two texts.
C15_Witness ==
    /\ ConRecomendaciones
    /\ Len(problemas_criticos) = 1
    /\ problemas_criticos[1].columna = "actitud_conductor_respetuosa_colaborativa"
    /\ Len(alertas) = 2
    /\ alertas[1].columna = "actitud_gestora_respetuosa_colaborativa"
    /\ alertas[2].columna = "comunicacion_efectiva"
    /\ Len(TextosDe("mediano_plazo")) = 3
    /\ Len(recomendaciones.mediano_plazo) = 2

SinRepetir(l) == \A i, j \in 1..Len(l) : l[i] = l[j] => i = j
\* position of the first occurrence of x in l
Primera(l, x) == CHOOSE i \in 1..Len(l) : l[i] = x /\ \A j \in 1..(i - 1) : l[j] # x
\* l holds each string of `anexados` once, in the order of first appearance
EnOrdenDePrimeraVez(l, anexados) ==
    /\ SinRepetir(l)
    /\ Range(l) = Range(anexados)
    /\ \A i, j \in 1..Len(l) : i < j => Primera(anexados, l[i]) < Primera(anexados, l[j])

\* C16: for every two input lists, no returned horizon list holds a string twice,
\* and each of corto_plazo and mediano_plazo holds the strings appended to it in
\* the order they were first appended, the entries being visited critical list
\* first, then alert list, each in list order.
C16_SinDuplicados ==
    ConRecomendaciones =>
        /\ SinRepetir(recomendaciones.corto_plazo)
        /\ SinRepetir(recomendaciones.mediano_plazo)
        /\ SinRepetir(recomendaciones.largo_plazo)
        /\ \A h \in Plazos : EnOrdenDePrimeraVez(recomendaciones[h], TextosDe(h))
        /\ Len(traza) = Len(problemas_criticos) + Len(alertas)
        /\ \A i \in 1..Len(traza) :
              traza[i].columna = (problemas_criticos \o alertas)[i].columna

\* C16 witness: trasbordo, comunicacion_efectiva, trasbordo again: the advisory of
\* trasbordo is appended twice to mediano_plazo and returned once, first.
C16_Witness ==
    /\ ConRecomendaciones
    /\ Len(problemas_criticos) = 1
    /\ problemas_criticos[1].columna = "trasbordo"
    /\ Len(alertas) = 2
    /\ alertas[1].columna = "comunicacion_efectiva"
    /\ alertas[2].columna = "trasbordo"
    /\ traza[1].texto = traza[3].texto
    /\ recomendaciones.mediano_plazo = <<traza[1].texto, traza[2].texto>>

\* C17: for every input, largo_plazo is the same three general statements in the
\* same order; with both input lists empty, corto_plazo and mediano_plazo are
\* empty.
C17_LargoPlazo ==
    ConRecomendaciones =>
        /\ recomendaciones.largo_plazo = recomendaciones_generales
        /\ Len(recomendaciones.largo_plazo) = 3
        /\ (problemas_criticos = <<>> /\ alertas = <<>>) =>
              /\ recomendaciones.corto_plazo = <<>>
              /\ recomendaciones.mediano_plazo = <<>>

\* C17 witness: both lists empty: only the three general statements are returned.
C17_Witness ==
    /\ ConRecomendaciones
    /\ problemas_criticos = <<>>
    /\ alertas = <<>>
    /\ Len(recomendaciones.largo_plazo) = 3
    /\ recomendaciones.corto_plazo = <<>>
    /\ recomendaciones.mediano_plazo = <<>>

Preprocesado == pc = "preprocess_data"
BooleanasPresentes(t) == Range(boolean_columns) \cap DOMAIN t.data

\* C18 (as claimed): after preprocess_data, every cell of every boolean column
\* present holds 0 or 1 and no null, whether the raw column was text, mixed or
\* already numeric (nulls and values other than 0 and 1 included).
C18_CeroOUno ==
    Preprocesado =>
        \A c \in BooleanasPresentes(retorno) : \A i \in 1..retorno.len :
            /\ retorno.data[c].celdas[i].t = "num"
            /\ retorno.data[c].celdas[i].n \in {0, 1}

\* what the claim expects of a raw cell: 1 and 0 for the affirmative and negative
\* words in any case, else the number the cell parses to, else 0
CeldaEsperada(c) ==
    IF c.t = "str" /\ Mayusculas(c.s) \in {"SI", "S", "TRUE", "VERDADERO"} THEN Numero(1)
    ELSE IF c.t = "str" /\ Mayusculas(c.s) \in {"NO", "N", "FALSE", "FALSO"} THEN Numero(0)
    ELSE FillNa(ANumero(c))

\* C19 (as claimed): in a text-typed boolean column every cell becomes 1 for
\* SI/S/TRUE/VERDADERO and 0 for NO/N/FALSE/FALSO in any letter case, and any other
\* cell (the empty string, the text "1", the number 1) becomes the number it
\* parses to, or 0 when it does not parse.
C19_Celdas ==
    Preprocesado =>
        \A c \in BooleanasPresentes(original) :
            original.data[c].dtype = "object" =>
                \A i \in 1..original.len :
                    retorno.data[c].celdas[i] = CeldaEsperada(original.data[c].celdas[i])

\* C20 (as claimed): after preprocess_data returns, the table object that was
\* passed still holds its raw cells and column types.
C20_SinEfectos == Preprocesado => entrada = original

\* C25 (as claimed): calcular_indice_grupo returns a value and does not raise, for
\* every table and every weight list, lists whose weights sum to 0 included.
C25_SinExcepcion == ConGrupo => grupo.excepcion = ""

ColumnasSenaladas ==
    {problemas_criticos[i].columna : i \in 1..Len(problemas_criticos)}
        \cup {alertas[i].columna : i \in 1..Len(alertas)}

\* C26 (as claimed): identificar_problemas tracks 16 indicators, so the two lists
\* hold at most 16 entries together.
C26_Dieciseis == Diagnosticado => Len(problemas_criticos) + Len(alertas) <= 16

\* C26 (amended): identificar_problemas tracks 17 indicators (6 of accessibility,
\* 2 of compliance, 3 of vehicle, 6 of attitudes); each is entered at most once, so
\* the two lists hold at most 17 entries together.
C26_Diecisiete ==
    /\ Cardinality(Tracked) = 17
    /\ Diagnosticado =>
          /\ ColumnasSenaladas \subseteq Tracked
          /\ Len(problemas_criticos) + Len(alertas) = Cardinality(ColumnasSenaladas)
          /\ Len(problemas_criticos) + Len(alertas) <= 17

\* C26 witness: every tracked column is present and every indicator fails: 17
\* entries.
C26_Witness ==
    /\ Diagnosticado
    /\ Columns(df) = Tracked
    /\ Len(problemas_criticos) + Len(alertas) = 17

RutasYAccesos == {"comedor_facil_Acceso", "vehiculo_puede_llegar_a_sitio"}
\* one of the two columns that share an advisory is critical, the other one is only
\* an alert
UnoCriticoOtroAlerta ==
    \E a, b \in RutasYAccesos :
        /\ a # b
        /\ EnCriticos(a) /\ ~EnLista(alertas, a)
        /\ EnLista(alertas, b) /\ ~EnCriticos(b)

\* C29: duplicates are removed within each horizon only: when one of
\* comedor_facil_Acceso and vehiculo_puede_llegar_a_sitio is in the critical list
\* and the other one only in the alert list, the advisory they share is in
\* corto_plazo and in mediano_plazo of the same result.
C29_EnAmbosPlazos ==
    (ConRecomendaciones /\ UnoCriticoOtroAlerta) =>
        \E i, j \in 1..Len(traza) :
            /\ traza[i].columna \in RutasYAccesos
            /\ traza[j].columna \in RutasYAccesos
            /\ traza[i].texto = traza[j].texto
            /\ traza[i].texto \in Range(recomendaciones.corto_plazo)
            /\ traza[j].texto \in Range(recomendaciones.mediano_plazo)

\* C29 witness: vehiculo_puede_llegar_a_sitio critical and comedor_facil_Acceso an
\* alert: the two horizons hold the same single string.
C29_Witness ==
    /\ ConRecomendaciones
    /\ Len(problemas_criticos) = 1
    /\ problemas_criticos[1].columna = "vehiculo_puede_llegar_a_sitio"
    /\ Len(alertas) = 1
    /\ alertas[1].columna = "comedor_facil_Acceso"
    /\ Len(recomendaciones.corto_plazo) = 1
    /\ recomendaciones.corto_plazo = recomendaciones.mediano_plazo

ConFiltroDeFecha == filtrada.hecho /\ filtro.funcion = "apply_date_filter"
ConRango == filtro.start_date # Ninguna /\ filtro.end_date # Ninguna
FechaValida(f) == f \notin {FechaNula, FechaIlegible}
HayFechaValida(t) == \E i \in DOMAIN t.filas : FechaValida(t.filas[i].fecha)
\* the index labels of the rows of a table
Indices(t) == {t.filas[i].idx : i \in DOMAIN t.filas}
\* the index labels of the rows of t whose date is valid and within the days
\* inicio..fin, the whole day fin included
EnElRango(t, inicio, fin) ==
    {t.filas[i].idx : i \in {j \in DOMAIN t.filas :
        /\ FechaValida(t.filas[j].fecha)
        /\ Medianoche(inicio) <= t.filas[j].fecha
        /\ t.filas[j].fecha < Medianoche(fin + 1)}}

\* C21 (as claimed): apply_date_filter with a start and an end date keeps a row iff
\* its date is valid and start 00:00:00 <= date < (end + 1 day) 00:00:00, whatever
\* the resolution of the timestamps.
C21_DiaFinalCompleto ==
    (ConFiltroDeFecha /\ ConRango /\ "fecha" \in tabla.columnas) =>
        Indices(filtrada.tabla) = EnElRango(tabla, filtro.start_date, filtro.end_date)

\* C22 (as claimed): apply_date_filter drops the rows without a valid date only when
\* a date range is requested and some row has a valid date; when no row has a valid
\* date it returns the whole table.
C22_SinFechasValidas ==
    (ConFiltroDeFecha /\ "fecha" \in tabla.columnas) =>
        /\ ~HayFechaValida(tabla) => Indices(filtrada.tabla) = Indices(tabla)
        /\ (HayFechaValida(tabla) /\ ~ConRango) =>
              Indices(filtrada.tabla) = Indices(tabla)

\* get_global_filters ran with the range of the apply_date_filter call in its date
\* widget, or without a date widget
MismoRango ==
    /\ ConFiltroDeFecha
    /\ ConRango
    /\ filtrada_app.hecho
    /\ \/ seleccion.date_range.n = 0
       \/ /\ seleccion.date_range.n = 2
          /\ seleccion.date_range.inicio = filtro.start_date
          /\ seleccion.date_range.fin = filtro.end_date

\* C27 (as claimed): for every table and date range, the date stage of
\* get_global_filters and apply_date_filter keep the same rows.
C27_MismasFilas ==
    MismoRango => Indices(filtrada_app.fecha) = Indices(filtrada.tabla)

(***************************************************************************)
(* apply_category_filter alone, and the filters one after the other.       *)
(***************************************************************************)
\* the category filter of column was the first and only filter applied
SoloCategoria(column) ==
    /\ filtrada.hecho
    /\ filtro.aplicados = {column}
    /\ column \in FiltrosDeCategoria

SinCambio(column) ==
    \/ Todos \in Range(seleccion[column])
    \/ Todas \in Range(seleccion[column])
    \/ seleccion[column] = <<>>
    \/ column \notin tabla.columnas
    \/ tabla.filas = <<>>

EsMiembro(v, values) == \E i \in DOMAIN values : values[i] = v

\* C23: apply_category_filter returns the table unchanged when the selection
\* holds "Todos" or "Todas", when the selection is empty, when the column is
\* absent or when the table has no rows; otherwise it returns exactly the rows
\* whose value of the column is a member of the selection, in their order.
C23_FiltroDeCategoria ==
    \A column \in FiltrosDeCategoria :
        SoloCategoria(column) =>
            IF SinCambio(column)
            THEN filtrada.tabla = tabla
            ELSE /\ filtrada.tabla.columnas = tabla.columnas
                 /\ filtrada.tabla.filas =
                        SelectSeq(tabla.filas,
                                  LAMBDA r : EsMiembro(r[column], seleccion[column]))

\* two rows of comunas "2" and "1", comuna "1" selected: the second row alone
\* is returned
C23_Witness ==
    /\ SoloCategoria("comuna")
    /\ seleccion.comuna = <<"1">>
    /\ Len(tabla.filas) = 2
    /\ "comuna" \in tabla.columnas
    /\ tabla.filas[1].comuna = "2"
    /\ tabla.filas[2].comuna = "1"
    /\ Len(filtrada.tabla.filas) = 1
    /\ filtrada.tabla.filas[1].idx = 2

TodosAplicados == filtro.aplicados = {"fecha"} \cup FiltrosDeCategoria

\* the date filter, then the filters of comuna, ruta and nodo
EnOrdenFijo ==
    apply_category_filter(
        apply_category_filter(
            apply_category_filter(
                apply_date_filter(tabla, seleccion.start_date, seleccion.end_date),
                "comuna", seleccion.comuna),
            "ruta", seleccion.ruta),
        "nodo", seleccion.nodo)

\* C24: the date filter and the category filters of comuna, ruta and nodo,
\* applied one after the other in any order, leave the same set of rows: the
\* rows left in whatever order they were applied are those left by the date
\* filter followed by comuna, ruta and nodo.
C24_Conmutan ==
    TodosAplicados => Indices(filtrada.tabla) = Indices(EnOrdenFijo)

\* the date filter was applied last; alone it removes a row of the table, and
\* so does the filter of comuna; a row with no date is among the rows
C24_Witness ==
    /\ TodosAplicados
    /\ filtro.funcion = "apply_date_filter"
    /\ "fecha" \in tabla.columnas
    /\ "comuna" \in tabla.columnas
    /\ \E i \in DOMAIN tabla.filas : tabla.filas[i].fecha = FechaNula
    /\ Len(apply_date_filter(tabla, seleccion.start_date, seleccion.end_date).filas)
           < Len(tabla.filas)
    /\ Len(apply_category_filter(tabla, "comuna", seleccion.comuna).filas)
           < Len(tabla.filas)
    /\ Len(apply_category_filter(tabla, "comuna", seleccion.comuna).filas) > 0

(***************************************************************************)
(* The session key filtered_df.                                            *)
(***************************************************************************)
UltimaAlmacenada == historial[Len(historial)]

\* C28: in any sequence of main-page runs and sub-page views, the key
\* filtered_df is present exactly when a run with data has happened and then
\* holds the table of the latest such run (a run whose load is empty leaves it
\* as it was), and a view that has just happened returned that table, or the
\* loader's table when no run with data has happened.
C28_UltimaTablaAlmacenada ==
    /\ session_state.filtered_df <=> historial # <<>>
    /\ session_state.filtered_df => session_state.tabla = UltimaAlmacenada
    /\ pc = "get_data" =>
           vista.tabla = IF historial # <<>> THEN UltimaAlmacenada ELSE vista.cargada

\* two runs stored different tables, then a run loaded nothing, then a page
\* whose loader would return another table shows the second stored table
C28_Witness ==
    /\ pc = "get_data"
    /\ Len(historial) = 2
    /\ historial[1] # historial[2]
    /\ EsVacia(tabla)
    /\ vista.tabla = historial[2]
    /\ vista.cargada # vista.tabla
    /\ ~EsVacia(vista.cargada)

(***************************************************************************)
(* load_data_from_sheets.                                                  *)
(***************************************************************************)
OrdenDeFuentes == <<"env", "ruta", "local", "secrets">>
DaCredenciales(nombre) == entorno[nombre] = "ok"
\* the first source, in the order of the sources, that gives credentials
PrimeraFuente ==
    IF \E i \in DOMAIN OrdenDeFuentes : DaCredenciales(OrdenDeFuentes[i])
    THEN OrdenDeFuentes[CHOOSE i \in DOMAIN OrdenDeFuentes :
                            /\ DaCredenciales(OrdenDeFuentes[i])
                            /\ \A j \in 1..(i - 1) : ~DaCredenciales(OrdenDeFuentes[j])]
    ELSE ""

SeAbre == entorno.por_id = "ok" \/ entorno.por_nombre = "ok"

\* something the connector needs is missing or fails
AlgoFalla ==
    \/ ~entorno.gspread
    \/ PrimeraFuente = ""
    \/ entorno.authorize = "error"
    \/ ~SeAbre
    \/ entorno.worksheet # "ok"
    \/ entorno.records # "datos"
    \/ entorno.preprocess = "error"

\* C30: load_data_from_sheets never raises, returns an empty table whenever
\* the libraries are unavailable, no source gives credentials, the spreadsheet
\* opens neither by ID nor by name, the worksheet is not found or has no
\* records, or anything else raises; its credentials are those of the first
\* source that gives any in the order environment variable, path argument,
\* credentials.json, Streamlit secrets, and a source is read only when none of
\* the sources before it gave credentials.
C30_SiempreUnaTabla ==
    cargada.hecho =>
        /\ cargada.excepcion = ""
        /\ AlgoFalla => EsVacia(cargada.tabla)
        /\ entorno.gspread => cargada.fuente = PrimeraFuente
        /\ \A i \in DOMAIN OrdenDeFuentes :
               OrdenDeFuentes[i] \in Range(cargada.leidas) =>
                   \A j \in 1..(i - 1) : ~DaCredenciales(OrdenDeFuentes[j])

\* the environment variable and the path argument fail to give credentials,
\* credentials.json gives them and the secrets are not read; opening by ID
\* fails, opening by name works, and the worksheet raises an exception other
\* than WorksheetNotFound: an empty table is returned
C30_Witness ==
    /\ cargada.hecho
    /\ entorno.gspread
    /\ entorno.env = "error"
    /\ entorno.ruta = "sin_archivo"
    /\ entorno.secrets = "ok"
    /\ cargada.fuente = "local"
    /\ cargada.leidas = <<"env", "local">>
    /\ entorno.authorize = "ok"
    /\ entorno.por_id = "api_error"
    /\ entorno.por_nombre = "ok"
    /\ entorno.worksheet = "error"
    /\ cargada.conectado
    /\ cargada.excepcion = ""
    /\ EsVacia(cargada.tabla)

==============================================================================
